---- MODULE Spec2Model ----
(***************************************************************************)
(* Model of the CLI slog handler of nekrassov01/logger (package log):      *)
(* CLIHandler (NewCLIHandler, Enabled, Handle, WithAttrs, WithGroup,       *)
(* writeCaller, writeAttr, align), Color and Style.                        *)
(*                                                                         *)
(* Text and byte slices are sequences of one-character strings.  Slices of *)
(* attributes and of group names are references into explicit heaps of     *)
(* backing arrays, so that aliasing between handlers is visible.           *)
(***************************************************************************)
EXTENDS Integers, Sequences, FiniteSets, TLC

\* ------------------------------------------------------------------ bounds

\* number of goroutines calling Handle concurrently
NProcs == 2
\* Handle calls started in one behaviour of Spec
MaxCalls == 2
\* handler values in one behaviour of Spec (the root and the derived ones)
MaxFamily == 2
\* handler values in one behaviour of SpecDerive
MaxHandlers == 3
\* Handle calls started in one behaviour of SpecDerive
MaxRenders == 1
\* number of idle buffers bufPool keeps
MaxPool == 1
\* Enabled is called with the levels and thresholds -MaxLevel..MaxLevel
MaxLevel == 12

Procs == 1..NProcs

\* --------------------------------------------------------------- text, numbers

Digits == <<"0", "1", "2", "3", "4", "5", "6", "7", "8", "9">>

RECURSIVE AppendUint(_, _)
AppendUint(b, n) ==
    IF n < 10 THEN Append(b, Digits[n + 1])
    ELSE Append(AppendUint(b, n \div 10), Digits[(n % 10) + 1])

\* strconv.AppendInt(b, n, 10)
AppendInt(b, n) ==
    IF n < 0 THEN AppendUint(Append(b, "-"), 0 - n) ELSE AppendUint(b, n)

RECURSIVE Repeat(_, _)
Repeat(c, n) == IF n <= 0 THEN <<>> ELSE <<c>> \o Repeat(c, n - 1)

\* characters that occupy two display columns (runewidth), and none
\* (combining marks)
WideChars == {"W"}
ZeroWidthChars == {"^"}

RECURSIVE StringWidth(_)
StringWidth(s) ==
    IF s = <<>> THEN 0
    ELSE (IF Head(s) \in WideChars THEN 2 ELSE IF Head(s) \in ZeroWidthChars THEN 0 ELSE 1)
           + StringWidth(Tail(s))

ContainsAny(s, chars) == \E i \in 1..Len(s) : s[i] \in chars

QuoteChar(c) ==
    CASE c = "\"" -> <<"\\", "\"">>
      [] c = "\\" -> <<"\\", "\\">>
      [] c = "\n" -> <<"\\", "n">>
      [] c = "\t" -> <<"\\", "t">>
      [] c = "\r" -> <<"\\", "r">>
      [] OTHER -> <<c>>

RECURSIVE QuoteBody(_)
QuoteBody(s) == IF s = <<>> THEN <<>> ELSE QuoteChar(Head(s)) \o QuoteBody(Tail(s))

\* strconv.Quote
Quote(s) == <<"\"">> \o QuoteBody(s) \o <<"\"">>

\* ------------------------------------------------------------------- Color

NilColor == [isnil |-> TRUE, codes |-> <<>>, prefix |-> <<>>, reset |-> <<>>]

RECURSIVE SGRCodes(_, _, _)
SGRCodes(b, codes, i) ==
    IF i > Len(codes) THEN b
    ELSE SGRCodes(AppendInt(IF i > 1 THEN Append(b, ";") ELSE b, codes[i]), codes, i + 1)

makeSGR(codes) ==
    IF Len(codes) = 0 THEN <<>>
    ELSE Append(SGRCodes(<<"ESC", "[">>, codes, 1), "m")

NewColor(codes) ==
    IF Len(codes) = 0
    THEN [isnil |-> FALSE, codes |-> <<>>, prefix |-> <<>>, reset |-> <<>>]
    ELSE [isnil |-> FALSE, codes |-> codes, prefix |-> makeSGR(codes),
          reset |-> makeSGR(<<0>>)]

\* a WriteString that writes nothing at all for an empty string
ColorWriteStringSkipEmpty(c, buf, s) ==
    IF s = <<>> THEN buf
    ELSE LET b1 == IF ~c.isnil /\ Len(c.prefix) > 0 THEN buf \o c.prefix ELSE buf
             b2 == b1 \o s
         IN IF ~c.isnil /\ Len(c.reset) > 0 THEN b2 \o c.reset ELSE b2

\* (*Color).WriteString: the buffer after the call
ColorWriteString(c, buf, s) ==
    LET b1 == IF ~c.isnil /\ Len(c.prefix) > 0 THEN buf \o c.prefix ELSE buf
        b2 == IF s # <<>> THEN b1 \o s ELSE b1
    IN IF ~c.isnil /\ Len(c.reset) > 0 THEN b2 \o c.reset ELSE b2

\* (*Color).WriteBytes: the buffer after the call
ColorWriteBytes(c, buf, b) ==
    LET b1 == IF ~c.isnil /\ Len(c.prefix) > 0 THEN buf \o c.prefix ELSE buf
        b2 == IF Len(b) > 0 THEN b1 \o b ELSE b1
    IN IF ~c.isnil /\ Len(c.reset) > 0 THEN b2 \o c.reset ELSE b2

\* ------------------------------------------------------------------- Style

\* SGR attributes
Bold == 1
Underline == 4
FgHiBlack == 90
FgHiRed == 91
FgHiGreen == 92
FgHiYellow == 93
FgHiMagenta == 95
BgRed == 41
BgGreen == 42
BgYellow == 43
BgMagenta == 45

\* slog.Level values
LevelDebug == -4
LevelInfo == 0
LevelWarn == 4
LevelError == 8

NoAffix == [Text |-> <<>>, Color |-> NilColor]

\* the zero LevelStyle, which a map lookup of a missing level yields
ZeroLevelStyle == [Prefix |-> NoAffix, Suffix |-> NoAffix, Text |-> <<>>,
                   Color |-> NilColor, Width |-> 0]

LevelStyle(text, color, width) ==
    [Prefix |-> NoAffix, Suffix |-> NoAffix, Text |-> text, Color |-> color,
     Width |-> width]

ZeroLabelStyle == [Prefix |-> NoAffix, Suffix |-> NoAffix, Color |-> NilColor, Width |-> 0]

Style0 ==
    [Level |-> (LevelDebug :> LevelStyle(<<"[", "D", "B", "G", "]">>, NilColor, 0))
            @@ (LevelInfo :> LevelStyle(<<"[", "I", "N", "F", "]">>, NilColor, 0))
            @@ (LevelWarn :> LevelStyle(<<"[", "W", "R", "N", "]">>, NilColor, 0))
            @@ (LevelError :> LevelStyle(<<"[", "E", "R", "R", "]">>, NilColor, 0)),
     Label |-> ZeroLabelStyle,
     Attr |-> [KeyColor |-> NilColor, ValueColor |-> NilColor, Separator |-> <<"=">>],
     Caller |-> [Prefix |-> [Text |-> <<"<">>, Color |-> NilColor],
                 Suffix |-> [Text |-> <<">">>, Color |-> NilColor],
                 Color |-> NilColor, Fullpath |-> FALSE]]

ColoredCaller ==
    [Prefix |-> [Text |-> <<"<">>, Color |-> NewColor(<<FgHiBlack>>)],
     Suffix |-> [Text |-> <<">">>, Color |-> NewColor(<<FgHiBlack>>)],
     Color |-> NewColor(<<FgHiBlack, Underline>>), Fullpath |-> FALSE]

ColoredLabel == [ZeroLabelStyle EXCEPT !.Color = NewColor(<<FgHiBlack, Bold>>)]

ColoredAttr ==
    [KeyColor |-> NewColor(<<FgHiBlack>>), ValueColor |-> NilColor, Separator |-> <<"=">>]

Style1 ==
    [Level |-> (LevelDebug :> LevelStyle(<<"D", "B", "G">>, NewColor(<<Bold, FgHiMagenta>>), 0))
            @@ (LevelInfo :> LevelStyle(<<"I", "N", "F">>, NewColor(<<Bold, FgHiGreen>>), 0))
            @@ (LevelWarn :> LevelStyle(<<"W", "R", "N">>, NewColor(<<Bold, FgHiYellow>>), 0))
            @@ (LevelError :> LevelStyle(<<"E", "R", "R">>, NewColor(<<Bold, FgHiRed>>), 0)),
     Label |-> ColoredLabel, Attr |-> ColoredAttr, Caller |-> ColoredCaller]

\* width of the level field in Style3
Style3Width == 5

Style3 ==
    [Level |-> (LevelDebug :> LevelStyle(<<"D", "B", "G">>, NewColor(<<Bold, BgMagenta>>), Style3Width))
            @@ (LevelInfo :> LevelStyle(<<"I", "N", "F">>, NewColor(<<Bold, BgGreen>>), Style3Width))
            @@ (LevelWarn :> LevelStyle(<<"W", "R", "N">>, NewColor(<<Bold, BgYellow>>), Style3Width))
            @@ (LevelError :> LevelStyle(<<"E", "R", "R">>, NewColor(<<Bold, BgRed>>), Style3Width)),
     Label |-> ColoredLabel, Attr |-> ColoredAttr, Caller |-> ColoredCaller]

\* a *Style is held by name
StyleOf(name) ==
    CASE name = "Style0" -> Style0
      [] name = "Style1" -> Style1
      [] name = "Style3" -> Style3

\* level[k] on the style's level map
LevelLookup(style, k) ==
    IF k \in DOMAIN style.Level THEN style.Level[k] ELSE ZeroLevelStyle

\* an align that puts the odd space on the left
alignLeftHeavy(buf, s, w) ==
    LET p == w - StringWidth(s)
        rp == p \div 2
        lp == p - rp
    IN IF w > 0 /\ p > 0
       THEN buf \o Repeat(" ", lp) \o s \o Repeat(" ", rp)
       ELSE buf \o s

\* align centers s in a field of w display columns
align(buf, s, w) ==
    LET p == w - StringWidth(s)
        lp == p \div 2
        rp == p - lp
    IN IF w > 0 /\ p > 0
       THEN buf \o Repeat(" ", lp) \o s \o Repeat(" ", rp)
       ELSE buf \o s

\* --------------------------------------------------------------- attributes

\* slog.Attr values of the kinds the model uses
String(k, v) == [Key |-> k, Kind |-> "String", Str |-> v, Int |-> 0, Grp |-> <<>>]
Int64(k, n) == [Key |-> k, Kind |-> "Int64", Str |-> <<>>, Int |-> n, Grp |-> <<>>]
Bool(k, b) == [Key |-> k, Kind |-> "Bool", Str |-> <<>>, Int |-> IF b THEN 1 ELSE 0, Grp |-> <<>>]
Group(k, as) == [Key |-> k, Kind |-> "Group", Str |-> <<>>, Int |-> 0, Grp |-> as]

\* A []string value: arr is the backing array (its length is the capacity),
\* len the length of the slice, ref the heap array it aliases (0: an array no
\* handler holds).
NilStrings == [isnil |-> TRUE, arr |-> <<>>, len |-> 0, ref |-> 0]

\* capacity make([]string, 0, 8) gives writeAttr's groups
WriteAttrGroupsCap == 8

MakeStrings(len, cap) ==
    [isnil |-> FALSE, arr |-> [i \in 1..cap |-> <<>>], len |-> len, ref |-> 0]

Elems(sl) == SubSeq(sl.arr, 1, sl.len)

\* append(sl, xs...): in place while the capacity allows, else a new array
\* whose capacity is the needed length or twice the old capacity, whichever
\* is larger (the runtime's growth rule for short slices of strings)
AppendStrings(sl, xs) ==
    LET need == sl.len + Len(xs)
        cap == IF need > 2 * Len(sl.arr) THEN need ELSE 2 * Len(sl.arr)
    IN IF need <= Len(sl.arr)
       THEN [sl EXCEPT !.arr = [i \in 1..Len(sl.arr) |->
                                   IF i > sl.len /\ i <= need
                                   THEN xs[i - sl.len] ELSE sl.arr[i]],
                       !.len = need, !.isnil = FALSE]
       ELSE [isnil |-> FALSE,
             arr |-> [i \in 1..cap |->
                        IF i <= sl.len THEN sl.arr[i]
                        ELSE IF i <= need THEN xs[i - sl.len] ELSE <<>>],
             len |-> need, ref |-> 0]

\* the dotted group path and the key of a leaf, each piece through the key color
RECURSIVE WriteGroupPath(_, _, _, _)
WriteGroupPath(kc, buf, groups, i) ==
    IF i > Len(groups) THEN buf
    ELSE LET b1 == ColorWriteString(kc, buf, groups[i])
             b2 == IF i < Len(groups) THEN ColorWriteString(kc, b1, <<".">>) ELSE b1
         IN WriteGroupPath(kc, b2, groups, i + 1)

WriteLeafValue(vc, buf, attr) ==
    CASE attr.Kind = "String" ->
            IF ContainsAny(attr.Str, {" ", "\t", "\n"}) \/ ContainsAny(attr.Str, {"\\", "\""})
            THEN ColorWriteString(vc, buf, Quote(attr.Str))
            ELSE ColorWriteString(vc, buf, attr.Str)
      [] attr.Kind = "Int64" -> ColorWriteBytes(vc, buf, AppendInt(<<>>, attr.Int))
      [] attr.Kind = "Bool" ->
            IF attr.Int = 1 THEN ColorWriteString(vc, buf, <<"t", "r", "u", "e">>)
            ELSE ColorWriteString(vc, buf, <<"f", "a", "l", "s", "e">>)
      [] OTHER -> ColorWriteString(vc, buf, attr.Str)

\* writeAttr and its loop over the children of a group.  Both yield the buffer
\* and the backing array of the caller's groups slice after the call.
RECURSIVE writeAttr(_, _, _, _)
RECURSIVE writeGroupChildren(_, _, _, _, _)
RECURSIVE writeGroupChildrenTrailing(_, _, _, _, _)
\* a loop over the children of a group that writes the space after every
\* child, the last one too
writeGroupChildrenTrailing(buf, attrs, i, groups, style) ==
    IF i > Len(attrs) THEN [buf |-> buf, arr |-> groups.arr]
    ELSE LET r == writeAttr(buf, attrs[i], groups, style)
         IN writeGroupChildrenTrailing(Append(r.buf, " "), attrs, i + 1,
                                       [groups EXCEPT !.arr = r.arr], style)

writeGroupChildren(buf, attrs, i, groups, style) ==
    IF i > Len(attrs) THEN [buf |-> buf, arr |-> groups.arr]
    ELSE LET r == writeAttr(buf, attrs[i], groups, style)
             b == IF i < Len(attrs) THEN Append(r.buf, " ") ELSE r.buf
         IN writeGroupChildren(b, attrs, i + 1, [groups EXCEPT !.arr = r.arr], style)

writeAttr(buf, attr, groups0, style) ==
    LET groups == IF groups0.isnil THEN MakeStrings(0, WriteAttrGroupsCap) ELSE groups0
        kc == style.Attr.KeyColor
        vc == style.Attr.ValueColor
        sp == style.Attr.Separator
    IN IF attr.Kind = "Group"
       THEN IF groups.len < Len(groups.arr)
            THEN LET g == [groups EXCEPT !.arr[groups.len + 1] = attr.Key,
                                         !.len = groups.len + 1]
                     r == writeGroupChildren(buf, attr.Grp, 1, g, style)
                 IN [buf |-> r.buf, arr |-> IF groups0.isnil THEN groups0.arr ELSE r.arr]
            ELSE LET g == AppendStrings(groups, <<attr.Key>>)
                     r == writeGroupChildren(buf, attr.Grp, 1, g, style)
                 IN [buf |-> r.buf, arr |-> groups0.arr]
       ELSE LET b1 == IF groups.len > 0
                      THEN ColorWriteString(kc, WriteGroupPath(kc, buf, Elems(groups), 1), <<".">>)
                      ELSE buf
                b2 == ColorWriteString(kc, b1, attr.Key)
                b3 == ColorWriteString(kc, b2, sp)
            IN [buf |-> WriteLeafValue(vc, b3, attr), arr |-> groups0.arr]

\* ------------------------------------------------------------------- state

VARIABLES
    handlers,    \* the CLIHandler values that exist; a *CLIHandler is an index
    attrArrays,  \* heap: backing arrays of []slog.Attr
    strArrays,   \* heap: backing arrays of []string
    mutex,       \* for each *sync.Mutex, the goroutine holding it (0: unlocked)
    pcCaches,    \* for each pcCache map, its entries (a function from pc to bytes)
    sink,        \* the Write calls the destination writer has received, in order
    raced,       \* goroutines whose Write overlapped another goroutine's Write
    pool,        \* the buffers idle in bufPool (their contents)
    held,        \* buffers taken from bufPool and not yet put back
    pc,          \* position of each goroutine in Handle
    hnd,         \* the handler each goroutine called Handle on
    rec,         \* the record each goroutine is handling
    buf,         \* the line buffer of each Handle call
    groups,      \* the local groups slice of each Handle call
    idx,         \* position of each Handle call in the record's attributes
    ret,         \* what each Handle call returns
    redacted,    \* the attrHandler invocations of each Handle call: <<in, out>>
    nwrites,     \* the Write calls each Handle call has made
    ncalls,      \* Handle calls started so far
    derived,     \* the last WithAttrs / WithGroup call that returned: receiver,
                 \* argument and the handler returned
    history,     \* for each handler, the derivations that led to it from its root
    wa,          \* the WithAttrs call in progress, if any
    enabled,     \* the last Enabled call: handler, level and result
    call,        \* the last call of a function of the package that touches no
                 \* handler: its name, its arguments and what it returned
    styles,      \* heap: the Style values that exist; a *Style is an index
    levelMaps,   \* heap: the map[slog.Level]LevelStyle values that exist
    outer        \* for each goroutine, the call that waits for the attrHandler
                 \* it invoked, while the function runs a Handle call of its own

vars == <<handlers, attrArrays, strArrays, mutex, pcCaches, sink, raced, pool, held,
          pc, hnd, rec, buf, groups, idx, ret, redacted, nwrites, ncalls, derived, history, wa,
          enabled, call, styles, levelMaps, outer>>

\* the call recv.op(arg) returned handler r
Derived(op, recv, arg, r) == [op |-> op, recv |-> recv, arg |-> arg, ret |-> r]

NoDerived == Derived("", 0, <<>>, 0)

\* the variables the operations of a handler leave alone when the attrHandler
\* makes no call of its own
pureVars == <<call, styles, levelMaps, outer>>

\* no function has been called yet
NoCall == [fn |-> "", args |-> <<>>, result |-> <<>>]

\* every variable but call and the two heaps of styles
handlerVars == <<handlers, attrArrays, strArrays, mutex, pcCaches, sink, raced, pool, held,
                 pc, hnd, rec, buf, groups, idx, ret, redacted, nwrites, ncalls, derived,
                 history, wa, enabled, outer>>

\* a nil slice header
NilSlice == [arr |-> 0, len |-> 0]

\* the slog.Leveler interface value: nil, or a level
NilLevel == [isnil |-> TRUE, v |-> 0]
Leveler(l) == [isnil |-> FALSE, v |-> l]

\* the zero CLIHandler (every field its zero value)
ZeroHandler ==
    [w |-> "nil", mu |-> 0, level |-> NilLevel, prefix |-> <<>>, attrs |-> NilSlice,
     attrsCache |-> <<>>, attrHandler |-> "nil", groups |-> NilSlice,
     groupsCache |-> NilSlice, pcCache |-> 0, hasCaller |-> FALSE, hasTime |-> FALSE,
     timeLayout |-> "", style |-> "nil"]

\* setColorable: a nil writer becomes io.Discard
setColorable(w) == IF w = "nil" THEN "discard" ELSE w

\* the CLIHandlerOption constructors
WithLevel(level) == [opt |-> "WithLevel", level |-> level, str |-> <<>>, flag |-> FALSE, name |-> ""]
WithLabel(prefix) == [opt |-> "WithLabel", level |-> NilLevel, str |-> prefix, flag |-> FALSE, name |-> ""]
WithCaller(has) == [opt |-> "WithCaller", level |-> NilLevel, str |-> <<>>, flag |-> has, name |-> ""]
WithTime(has) == [opt |-> "WithTime", level |-> NilLevel, str |-> <<>>, flag |-> has, name |-> ""]
WithTimeFormat(layout) == [opt |-> "WithTimeFormat", level |-> NilLevel, str |-> <<>>, flag |-> FALSE, name |-> layout]
WithAttrHandler(fn) == [opt |-> "WithAttrHandler", level |-> NilLevel, str |-> <<>>, flag |-> FALSE, name |-> fn]
WithStyle(s) == [opt |-> "WithStyle", level |-> NilLevel, str |-> <<>>, flag |-> FALSE, name |-> s]

\* options that assign whatever they are given, nil and "" too
ApplyOptionUnguarded(h, o) ==
    CASE o.opt = "WithLevel" -> [h EXCEPT !.level = o.level]
      [] o.opt = "WithLabel" -> [h EXCEPT !.prefix = o.str]
      [] o.opt = "WithCaller" -> [h EXCEPT !.hasCaller = o.flag]
      [] o.opt = "WithTime" -> [h EXCEPT !.hasTime = o.flag]
      [] o.opt = "WithTimeFormat" -> [h EXCEPT !.timeLayout = o.name]
      [] o.opt = "WithAttrHandler" -> [h EXCEPT !.attrHandler = o.name]
      [] o.opt = "WithStyle" -> [h EXCEPT !.style = o.name]

\* opt(h)
ApplyOption(h, o) ==
    CASE o.opt = "WithLevel" -> IF ~o.level.isnil THEN [h EXCEPT !.level = o.level] ELSE h
      [] o.opt = "WithLabel" -> [h EXCEPT !.prefix = o.str]
      [] o.opt = "WithCaller" -> [h EXCEPT !.hasCaller = o.flag]
      [] o.opt = "WithTime" -> [h EXCEPT !.hasTime = o.flag]
      [] o.opt = "WithTimeFormat" -> IF o.name # "" THEN [h EXCEPT !.timeLayout = o.name] ELSE h
      [] o.opt = "WithAttrHandler" -> IF o.name # "nil" THEN [h EXCEPT !.attrHandler = o.name] ELSE h
      [] o.opt = "WithStyle" -> IF o.name # "nil" THEN [h EXCEPT !.style = o.name] ELSE h

RECURSIVE ApplyOptions(_, _)
ApplyOptions(h, opts) ==
    IF opts = <<>> THEN h ELSE ApplyOptions(ApplyOption(h, Head(opts)), Tail(opts))

\* NewCLIHandler(w, opts...), given the fresh mutex and the fresh pcCache map
NewCLIHandler(w, m, c, opts) ==
    ApplyOptions([ZeroHandler EXCEPT !.w = setColorable(w), !.mu = m,
                                     !.level = Leveler(LevelInfo),
                                     !.timeLayout = "RFC3339", !.style = "Style1",
                                     !.pcCache = c],
                 opts)

\* an Enabled that lets the threshold itself not pass
EnabledAbove(h, level) ==
    IF h.level.isnil THEN TRUE ELSE level > h.level.v

\* an Enabled that takes a nil level for info
EnabledNilInfo(h, level) ==
    IF h.level.isnil THEN level >= LevelInfo ELSE level >= h.level.v

\* Enabled
Enabled(h, level) ==
    IF h.level.isnil THEN TRUE ELSE level >= h.level.v

\* ------------------------------------------------------------- environment

AnyValue(k, text) == [Key |-> k, Kind |-> "Any", Str |-> text, Int |-> 0, Grp |-> <<>>]

\* the zero slog.Attr, whose value prints as <nil>
ZeroAttr == AnyValue(<<>>, <<"<", "n", "i", "l", ">">>)

\* The attribute handlers handlers are configured with.  "redact" masks the
\* value of key s and discards key d the way slog's ReplaceAttr does, by
\* returning the zero Attr.  "mark" appends ! to the string value of key a, so
\* that every application of it shows.  "relog" logs a record through a
\* handler (the actions AttrHandlerCall and WithAttrsEnter) and returns its
\* argument.
CallAttrHandler(fn, a) ==
    CASE fn = "redact" ->
            IF a.Key = <<"s">> THEN String(a.Key, <<"*", "*", "*">>)
            ELSE IF a.Key = <<"d">> THEN ZeroAttr
            ELSE a
      [] fn = "mark" ->
            IF a.Key = <<"a">> /\ a.Kind = "String" THEN String(a.Key, Append(a.Str, "!"))
            ELSE a
      [] OTHER -> a

\* runtime.FuncForPC and (*Func).FileLine: the symbol table
NoFunc == [isnil |-> TRUE, name |-> <<>>, file |-> <<>>, line |-> 0]

FuncForPC(p) ==
    CASE p = 1 -> [isnil |-> FALSE, name |-> <<"f">>, file |-> <<"x", ".", "g", "o">>,
                   line |-> 7]
      [] p = 3 -> [isnil |-> FALSE, name |-> <<"h">>, file |-> <<>>, line |-> 0]
      [] p = 4 -> [isnil |-> FALSE, name |-> <<"k">>, file |-> <<"y", ".", "g", "o">>,
                   line |-> 9]
      [] OTHER -> NoFunc

\* time.Time.AppendFormat, for the one instant the records carry
FormatTime(t, layout) == IF layout = "RFC3339" THEN <<"T">> \o AppendInt(<<>>, t) \o <<"Z">>
                         ELSE <<"t">> \o AppendInt(<<>>, t)

\* the records goroutines log
Record(level, msg, p, attrs) ==
    [Level |-> level, Message |-> msg, PC |-> p, Attrs |-> attrs, Time |-> 0]

RecB == Record(LevelWarn, <<"m">>, 1, <<String(<<"b">>, <<"2">>)>>)
RecSecret ==
    Record(LevelError + 4, <<"m">>, 1,
           <<String(<<"s">>, <<"v">>), String(<<>>, <<"e">>), String(<<"d">>, <<"x">>)>>)
RecUnknown == Record(LevelInfo + 1, <<"m">>, 1, <<String(<<"b">>, <<"2">>)>>)
RecGroup ==
    Record(LevelInfo, <<"m">>, 0, <<Group(<<"q">>, <<String(<<"c">>, <<"3">>)>>)>>)

\* the records logged concurrently
Records == { RecSecret, RecUnknown }

\* the records logged through derived handlers
DeriveRecords == { RecB, RecSecret, RecGroup }

\* the attribute lists WithAttrs is called with
AttrLists ==
    { <<>>,
      <<String(<<"a">>, <<"1">>)>>,
      <<String(<<>>, <<"e">>)>>,
      <<String(<<>>, <<"e">>), String(<<"s">>, <<"v">>)>> }

\* the names WithGroup is called with
GroupNames == { <<>>, <<"g">> }

\* the options of the root handler of Spec
RootOptions ==
    { <<WithStyle("Style0"), WithAttrHandler("redact"), WithCaller(TRUE)>>,
      <<WithStyle("Style3"), WithLabel(<<"L">>), WithTime(TRUE), WithCaller(TRUE),
        WithAttrHandler("redact")>> }

\* the options of the root handler of SpecDerive
DeriveOptions ==
    { <<WithStyle("Style0")>>,
      <<WithStyle("Style0"), WithAttrHandler("redact")>>,
      <<WithStyle("Style0"), WithAttrHandler("mark")>> }

\* the errors the destination writer may return from Write ("" is nil)
WriteResults == {"", "EIO"}

\* ------------------------------------------------------------------ bufPool

\* bufPool.Get(): an idle buffer, or a new one (the pool may find none)
PoolGet(pl) ==
    { [b |-> pl[i], pool |-> SubSeq(pl, 1, i - 1) \o SubSeq(pl, i + 1, Len(pl))] :
        i \in 1..Len(pl) }
    \cup { [b |-> <<>>, pool |-> pl] }

\* bufPool.Put(b): the pool keeps b while it has room, else drops it
PoolPut(pl, b) == IF Len(pl) < MaxPool THEN Append(pl, b) ELSE pl

\* a Reset that leaves the contents in the buffer
BufResetKeeps(b) == b

\* (*bytes.Buffer).Reset
BufReset(b) == <<>>

\* ------------------------------------------------------- pieces of Handle

\* a switch whose default case falls back to the info style
ClassifyLevelDefaultInfo(l) ==
    CASE l = LevelDebug -> [ok |-> TRUE, key |-> LevelDebug]
      [] l = LevelWarn -> [ok |-> TRUE, key |-> LevelWarn]
      [] l >= LevelError -> [ok |-> TRUE, key |-> LevelError]
      [] OTHER -> [ok |-> TRUE, key |-> LevelInfo]

\* a switch by ranges: every severity takes the style of the named level at
\* or below it, debug below info
ClassifyLevelByRange(l) ==
    CASE l < LevelInfo -> [ok |-> TRUE, key |-> LevelDebug]
      [] l < LevelWarn -> [ok |-> TRUE, key |-> LevelInfo]
      [] l < LevelError -> [ok |-> TRUE, key |-> LevelWarn]
      [] OTHER -> [ok |-> TRUE, key |-> LevelError]

\* the switch on r.Level: the key of the level style, or no match
ClassifyLevel(l) ==
    CASE l = LevelDebug -> [ok |-> TRUE, key |-> LevelDebug]
      [] l = LevelInfo -> [ok |-> TRUE, key |-> LevelInfo]
      [] l = LevelWarn -> [ok |-> TRUE, key |-> LevelWarn]
      [] l >= LevelError -> [ok |-> TRUE, key |-> LevelError]
      [] OTHER -> [ok |-> FALSE, key |-> 0]

\* a text between the prefix and suffix of its style st, aligned through the
\* temporary buffer tmp when a width is set, followed by a space
WriteField(b, text, st, tmp) ==
    LET b1 == IF st.Prefix.Text # <<>>
              THEN ColorWriteString(st.Prefix.Color, b, st.Prefix.Text) ELSE b
        b2 == IF st.Width > 0
              THEN ColorWriteBytes(st.Color, b1, align(tmp, text, st.Width))
              ELSE ColorWriteString(st.Color, b1, text)
        b3 == IF st.Suffix.Text # <<>>
              THEN ColorWriteString(st.Suffix.Color, b2, st.Suffix.Text) ELSE b2
    IN Append(b3, " ")

\* the level style Handle picks for record r
LevelStyleOf(h, r) == LevelLookup(StyleOf(h.style), ClassifyLevel(r.Level).key)

\* "Add log level": the buffer after it, tmp being the temporary buffer
LevelSegment(b, h, r, tmp) ==
    LET ls == LevelStyleOf(h, r)
    IN IF ls.Text # <<>> THEN WriteField(b, ls.Text, ls, tmp) ELSE b

\* writeCaller
writeCaller(b, bytes, style) ==
    LET c == style.Caller
        b1 == IF c.Prefix.Text # <<>> THEN ColorWriteString(c.Prefix.Color, b, c.Prefix.Text) ELSE b
        b2 == ColorWriteBytes(c.Color, b1, bytes)
        b3 == IF c.Suffix.Text # <<>> THEN ColorWriteString(c.Suffix.Color, b2, c.Suffix.Text) ELSE b2
    IN Append(b3, " ")

\* the bytes built for a resolved program counter: name (or file) : line
CallerBytes(f, style) ==
    AppendInt(Append(IF style.Caller.Fullpath THEN f.file ELSE f.name, ":"), f.line)

\* an "Add caller" that writes name:line on a miss and stores file:line
CallerSegmentStoreFile(b, h, r, cache) ==
    LET style == StyleOf(h.style)
        f == FuncForPC(r.PC)
    IN IF h.hasCaller /\ r.PC # 0
       THEN IF r.PC \in DOMAIN cache
            THEN [buf |-> writeCaller(b, cache[r.PC], style), cache |-> cache]
            ELSE IF ~f.isnil /\ f.file # <<>>
                 THEN [buf |-> writeCaller(b, CallerBytes(f, style), style),
                       cache |-> (r.PC :> AppendInt(Append(f.file, ":"), f.line)) @@ cache]
                 ELSE [buf |-> b, cache |-> cache]
       ELSE [buf |-> b, cache |-> cache]

\* an "Add caller" that resolves the counter every time and stores nothing
CallerSegmentNoStore(b, h, r, cache) ==
    LET style == StyleOf(h.style)
        f == FuncForPC(r.PC)
    IN IF h.hasCaller /\ r.PC # 0 /\ ~f.isnil /\ f.file # <<>>
       THEN [buf |-> writeCaller(b, CallerBytes(f, style), style), cache |-> cache]
       ELSE [buf |-> b, cache |-> cache]

\* an "Add caller" that on a miss drops what the cache holds
CallerSegmentEvict(b, h, r, cache) ==
    LET style == StyleOf(h.style)
        f == FuncForPC(r.PC)
    IN IF h.hasCaller /\ r.PC # 0
       THEN IF r.PC \in DOMAIN cache
            THEN [buf |-> writeCaller(b, cache[r.PC], style), cache |-> cache]
            ELSE IF ~f.isnil /\ f.file # <<>>
                 THEN [buf |-> writeCaller(b, CallerBytes(f, style), style),
                       cache |-> (r.PC :> CallerBytes(f, style))]
                 ELSE [buf |-> b, cache |-> cache]
       ELSE [buf |-> b, cache |-> cache]

\* "Add caller": what is written and what the cache becomes
CallerSegment(b, h, r, cache) ==
    LET style == StyleOf(h.style)
        f == FuncForPC(r.PC)
    IN IF h.hasCaller /\ r.PC # 0
       THEN IF r.PC \in DOMAIN cache
            THEN [buf |-> writeCaller(b, cache[r.PC], style), cache |-> cache]
            ELSE IF ~f.isnil /\ f.file # <<>>
                 THEN [buf |-> writeCaller(b, CallerBytes(f, style), style),
                       cache |-> (r.PC :> CallerBytes(f, style)) @@ cache]
                 ELSE [buf |-> b, cache |-> cache]
       ELSE [buf |-> b, cache |-> cache]

\* "Add time"
WriteTime(b, h, r, style) ==
    LET b1 == Append(b, " ")
        b2 == ColorWriteString(style.Attr.KeyColor, b1, <<"t", "i", "m", "e">>)
        b3 == ColorWriteString(style.Attr.KeyColor, b2, style.Attr.Separator)
    IN ColorWriteBytes(style.Attr.ValueColor, b3, FormatTime(r.Time, h.timeLayout))

\* a Handle that writes the time before the message
LabelSegmentTimeFirst(b, h, r, tmp) ==
    LET style == StyleOf(h.style)
        b1 == IF h.prefix # <<>> THEN WriteField(b, h.prefix, style.Label, tmp) ELSE b
        b2 == IF h.hasTime THEN WriteTime(b1, h, r, style) ELSE b1
    IN b2 \o r.Message

\* "Add prefix", "Add message", "Add time": the buffer after them
LabelSegment(b, h, r, tmp) ==
    LET style == StyleOf(h.style)
        b1 == IF h.prefix # <<>> THEN WriteField(b, h.prefix, style.Label, tmp) ELSE b
        b2 == b1 \o r.Message
    IN IF h.hasTime THEN WriteTime(b2, h, r, style) ELSE b2

\* a []string header of a handler as a slice value over the heap sa of
\* []string arrays
StringsIn(sa, hdr) ==
    IF hdr.arr = 0 THEN NilStrings
    ELSE [isnil |-> FALSE, arr |-> sa[hdr.arr], len |-> hdr.len, ref |-> hdr.arr]

StringsOf(hdr) == StringsIn(strArrays, hdr)

\* the elements of a []slog.Attr header over the heap aa of []slog.Attr arrays
AttrsIn(aa, hdr) == IF hdr.arr = 0 THEN <<>> ELSE SubSeq(aa[hdr.arr], 1, hdr.len)

AttrsOf(hdr) == AttrsIn(attrArrays, hdr)

\* the local groups slice of Handle: h.groupsCache[:0] or a new array, with
\* h.groups appended
HandleGroupsIn(sa, h) ==
    LET g0 == IF h.groupsCache.arr # 0
              THEN [StringsIn(sa, h.groupsCache) EXCEPT !.len = 0]
              ELSE MakeStrings(0, h.groups.len)
    IN IF h.groups.len > 0 THEN AppendStrings(g0, Elems(StringsIn(sa, h.groups))) ELSE g0

HandleGroups(h) == HandleGroupsIn(strArrays, h)

\* the loop over a list of attached attributes, empty keys skipped; yields the
\* buffer and the groups array
RECURSIVE WriteAttrs(_, _, _, _, _)
WriteAttrs(b, attrs, i, g, style) ==
    IF i > Len(attrs) THEN [buf |-> b, arr |-> g.arr]
    ELSE IF attrs[i].Key = <<>> THEN WriteAttrs(b, attrs, i + 1, g, style)
    ELSE LET r == writeAttr(Append(b, " "), attrs[i], g, style)
         IN WriteAttrs(r.buf, attrs, i + 1, [g EXCEPT !.arr = r.arr], style)

\* "Add attributes", the attached ones: the cache, or the attributes live
AttachedSegmentIn(aa, b, h, g) ==
    IF Len(h.attrsCache) > 0
    THEN [buf |-> b \o h.attrsCache, arr |-> g.arr]
    ELSE WriteAttrs(b, AttrsIn(aa, h.attrs), 1, g, StyleOf(h.style))

AttachedSegment(b, h, g) == AttachedSegmentIn(attrArrays, b, h, g)

\* a call that writes the attribute it was given, dropping what attrHandler
\* returned
RecordAttrSegmentUnredacted(b, h, a0, g) ==
    IF a0.Key = <<>>
    THEN [called |-> FALSE, out |-> a0, buf |-> b, arr |-> g.arr]
    ELSE LET a == IF h.attrHandler # "nil" THEN CallAttrHandler(h.attrHandler, a0) ELSE a0
             r == writeAttr(Append(b, " "), a0, g, StyleOf(h.style))
         IN [called |-> h.attrHandler # "nil", out |-> a, buf |-> r.buf, arr |-> r.arr]

\* one call of the function Handle passes to r.Attrs, on attribute a0:
\* whether attrHandler was called, what it returned, the buffer and the
\* groups array afterwards
RecordAttrSegment(b, h, a0, g) ==
    IF a0.Key = <<>>
    THEN [called |-> FALSE, out |-> a0, buf |-> b, arr |-> g.arr]
    ELSE LET a == IF h.attrHandler # "nil" THEN CallAttrHandler(h.attrHandler, a0) ELSE a0
             r == writeAttr(Append(b, " "), a, g, StyleOf(h.style))
         IN [called |-> h.attrHandler # "nil", out |-> a, buf |-> r.buf, arr |-> r.arr]

\* the heap of []string arrays after in-place writes through slice value g
StoreStrings(heap, g) ==
    IF g.ref # 0 THEN [heap EXCEPT ![g.ref] = g.arr] ELSE heap

\* a Handle that drops the error of Write
HandleResultNil(e) == ""

\* what Handle returns when Write returned e
HandleResult(e) == e

\* ------------------------------------------------------------------- Handle

derivVars == <<handlers, attrArrays, history, derived, wa>>

Handler(p) == handlers[hnd[p]]

\* the locals of a goroutine outside Handle
NoRecord == [Level |-> 0, Message |-> <<>>, PC |-> 0, Attrs |-> <<>>, Time |-> 0]

\* no call of the goroutine waits for an attrHandler
NoFrame ==
    [ctx |-> "", h |-> 0, attrs |-> <<>>, pc |-> "idle", hnd |-> 0, rec |-> NoRecord,
     buf |-> <<>>, groups |-> NilStrings, idx |-> 0, ret |-> "", redacted |-> <<>>,
     nwrites |-> 0]

\* a goroutine calls h.Handle(ctx, r)
HandleCall(p, h, r) ==
    /\ pc[p] = "idle"
    /\ pc' = [pc EXCEPT ![p] = "lock"]
    /\ hnd' = [hnd EXCEPT ![p] = h]
    /\ rec' = [rec EXCEPT ![p] = r]
    /\ ncalls' = ncalls + 1
    /\ UNCHANGED <<derivVars, strArrays, mutex, pcCaches, sink, raced, pool, held, buf,
                   groups, idx, ret, redacted, nwrites, enabled, pureVars>>

\* a Lock that never waits
LockNoWait(m) == TRUE

\* a mutex its holder may lock again
LockFreeReentrant(m) == mutex[m] = 0 \/ \E p \in Procs : mutex[m] = p /\ pc[p] = "lock"

\* h.mu.Lock() may return
LockFree(m) == mutex[m] = 0

\* h.mu.Lock()
Lock(p) ==
    /\ pc[p] = "lock"
    /\ LockFree(Handler(p).mu)
    /\ mutex' = [mutex EXCEPT ![Handler(p).mu] = p]
    /\ pc' = [pc EXCEPT ![p] = "classify"]
    /\ UNCHANGED <<derivVars, strArrays, pcCaches, sink, raced, pool, held, hnd, rec, buf,
                   groups, idx, ret, redacted, nwrites, ncalls, enabled, pureVars>>

\* the level switch; on a match, the line buffer is taken from the pool
Classify(p) ==
    /\ pc[p] = "classify"
    /\ IF ClassifyLevel(rec[p].Level).ok
       THEN \E g \in PoolGet(pool) :
                /\ buf' = [buf EXCEPT ![p] = g.b]
                /\ pool' = g.pool
                /\ held' = held + 1
                /\ pc' = [pc EXCEPT ![p] = "level"]
                /\ ret' = ret
       ELSE /\ ret' = [ret EXCEPT ![p] = "unknown log level"]
            /\ pc' = [pc EXCEPT ![p] = "unlock"]
            /\ UNCHANGED <<buf, pool, held>>
    /\ UNCHANGED <<derivVars, strArrays, mutex, pcCaches, sink, raced, hnd, rec, groups,
                   idx, redacted, nwrites, ncalls, enabled, pureVars>>

\* "Add log level"
WriteLevel(p) ==
    /\ pc[p] = "level"
    /\ LET ls == LevelStyleOf(Handler(p), rec[p])
       IN IF ls.Text # <<>> /\ ls.Width > 0
          THEN \E g \in PoolGet(pool) :
                   /\ buf' = [buf EXCEPT ![p] = LevelSegment(buf[p], Handler(p), rec[p], g.b)]
                   /\ pool' = PoolPut(g.pool, BufReset(align(g.b, ls.Text, ls.Width)))
          ELSE /\ buf' = [buf EXCEPT ![p] = LevelSegment(buf[p], Handler(p), rec[p], <<>>)]
               /\ pool' = pool
    /\ pc' = [pc EXCEPT ![p] = "caller"]
    /\ UNCHANGED <<derivVars, strArrays, mutex, pcCaches, sink, raced, held, hnd, rec,
                   groups, idx, ret, redacted, nwrites, ncalls, enabled, pureVars>>

\* "Add caller"
WriteCaller(p) ==
    /\ pc[p] = "caller"
    /\ LET h == Handler(p)
           c == CallerSegment(buf[p], h, rec[p], pcCaches[h.pcCache])
       IN /\ buf' = [buf EXCEPT ![p] = c.buf]
          /\ pcCaches' = [pcCaches EXCEPT ![h.pcCache] = c.cache]
    /\ pc' = [pc EXCEPT ![p] = "label"]
    /\ UNCHANGED <<derivVars, strArrays, mutex, sink, raced, pool, held, hnd, rec, groups,
                   idx, ret, redacted, nwrites, ncalls, enabled, pureVars>>

\* "Add prefix", "Add message", "Add time"
WriteLabel(p) ==
    /\ pc[p] = "label"
    /\ LET h == Handler(p)
           label == StyleOf(h.style).Label
       IN IF h.prefix # <<>> /\ label.Width > 0
          THEN \E g \in PoolGet(pool) :
                   /\ buf' = [buf EXCEPT ![p] = LabelSegment(buf[p], h, rec[p], g.b)]
                   /\ pool' = PoolPut(g.pool, BufReset(align(g.b, h.prefix, label.Width)))
          ELSE /\ buf' = [buf EXCEPT ![p] = LabelSegment(buf[p], h, rec[p], <<>>)]
               /\ pool' = pool
    /\ pc' = [pc EXCEPT ![p] = "attached"]
    /\ UNCHANGED <<derivVars, strArrays, mutex, pcCaches, sink, raced, held, hnd, rec,
                   groups, idx, ret, redacted, nwrites, ncalls, enabled, pureVars>>

\* "Add attributes": the groups slice and the attached attributes
WriteAttached(p) ==
    /\ pc[p] = "attached"
    /\ LET g == HandleGroups(Handler(p))
           r == AttachedSegment(buf[p], Handler(p), g)
           g2 == [g EXCEPT !.arr = r.arr]
       IN /\ buf' = [buf EXCEPT ![p] = r.buf]
          /\ groups' = [groups EXCEPT ![p] = g2]
          /\ strArrays' = StoreStrings(strArrays, g2)
    /\ idx' = [idx EXCEPT ![p] = 1]
    /\ pc' = [pc EXCEPT ![p] = "attrs"]
    /\ UNCHANGED <<derivVars, mutex, pcCaches, sink, raced, pool, held, hnd, rec, ret,
                   redacted, nwrites, ncalls, enabled, pureVars>>

\* the local groups slice as the heap has it now
LocalGroups(p) ==
    IF groups[p].ref # 0 THEN [groups[p] EXCEPT !.arr = strArrays[groups[p].ref]]
    ELSE groups[p]

\* one call of the function passed to r.Attrs
RecordAttr(p) ==
    /\ pc[p] = "attrs"
    /\ idx[p] <= Len(rec[p].Attrs)
    /\ LET a0 == rec[p].Attrs[idx[p]]
           g == LocalGroups(p)
           r == RecordAttrSegment(buf[p], Handler(p), a0, g)
           g2 == [g EXCEPT !.arr = r.arr]
       IN /\ buf' = [buf EXCEPT ![p] = r.buf]
          /\ groups' = [groups EXCEPT ![p] = g2]
          /\ strArrays' = StoreStrings(strArrays, g2)
          /\ redacted' = IF r.called
                         THEN [redacted EXCEPT ![p] = Append(@, <<a0, r.out>>)]
                         ELSE redacted
    /\ idx' = [idx EXCEPT ![p] = idx[p] + 1]
    /\ UNCHANGED <<derivVars, mutex, pcCaches, sink, raced, pool, held, pc, hnd, rec, ret,
                   nwrites, ncalls, enabled, pureVars>>

\* the goroutines inside Write on writer w
InWrite(w) == {q \in Procs : pc[q] = "writing" /\ Handler(q).w = w}

\* "Write to output": the newline and the call of h.w.Write by buf.WriteTo
WriteCall(p) ==
    /\ pc[p] = "attrs"
    /\ idx[p] > Len(rec[p].Attrs)
    /\ buf' = [buf EXCEPT ![p] = Append(buf[p], "\n")]
    /\ nwrites' = [nwrites EXCEPT ![p] = nwrites[p] + 1]
    /\ raced' = IF InWrite(Handler(p).w) # {}
                THEN raced \cup InWrite(Handler(p).w) \cup {p} ELSE raced
    /\ pc' = [pc EXCEPT ![p] = "writing"]
    /\ UNCHANGED <<derivVars, strArrays, mutex, pcCaches, sink, pool, held, hnd, rec,
                   groups, idx, ret, redacted, ncalls, enabled, pureVars>>

\* Write returns: the writer took the bytes, or failed with e.  The bytes of
\* overlapping Write calls on one writer may come out torn.
WriteReturn(p, e, torn) ==
    /\ pc[p] = "writing"
    /\ torn => p \in raced
    /\ sink' = Append(sink, [w |-> Handler(p).w, data |-> buf[p], err |-> e, torn |-> torn])
    /\ raced' = raced \ {p}
    /\ ret' = [ret EXCEPT ![p] = HandleResult(e)]
    /\ pc' = [pc EXCEPT ![p] = "release"]
    /\ UNCHANGED <<derivVars, strArrays, mutex, pcCaches, pool, held, hnd, rec, buf,
                   groups, idx, redacted, nwrites, ncalls, enabled, pureVars>>

\* a Handle that puts its buffer back only after a successful Write
ReleaseOnSuccess(p) ==
    /\ pc[p] = "release"
    /\ pool' = IF ret[p] = "" THEN PoolPut(pool, BufReset(buf[p])) ELSE pool
    /\ held' = IF ret[p] = "" THEN held - 1 ELSE held
    /\ buf' = [buf EXCEPT ![p] = <<>>]
    /\ pc' = [pc EXCEPT ![p] = "unlock"]
    /\ UNCHANGED <<derivVars, strArrays, mutex, pcCaches, sink, raced, hnd, rec, groups,
                   idx, ret, redacted, nwrites, ncalls, enabled, pureVars>>

\* the deferred buf.Reset() and bufPool.Put(buf)
Release(p) ==
    /\ pc[p] = "release"
    /\ pool' = PoolPut(pool, BufReset(buf[p]))
    /\ held' = held - 1
    /\ buf' = [buf EXCEPT ![p] = <<>>]
    /\ pc' = [pc EXCEPT ![p] = "unlock"]
    /\ UNCHANGED <<derivVars, strArrays, mutex, pcCaches, sink, raced, hnd, rec, groups,
                   idx, ret, redacted, nwrites, ncalls, enabled, pureVars>>

\* an Unlock that is skipped when Handle returns the unknown-level error
UnlockUnlessUnknown(p) ==
    /\ pc[p] = "unlock"
    /\ mutex' = IF ret[p] = "unknown log level" THEN mutex
                ELSE [mutex EXCEPT ![Handler(p).mu] = 0]
    /\ pc' = [pc EXCEPT ![p] = "done"]
    /\ UNCHANGED <<derivVars, strArrays, pcCaches, sink, raced, pool, held, hnd, rec, buf,
                   groups, idx, ret, redacted, nwrites, ncalls, enabled, pureVars>>

\* the deferred h.mu.Unlock()
Unlock(p) ==
    /\ pc[p] = "unlock"
    /\ mutex' = [mutex EXCEPT ![Handler(p).mu] = 0]
    /\ pc' = [pc EXCEPT ![p] = "done"]
    /\ UNCHANGED <<derivVars, strArrays, pcCaches, sink, raced, pool, held, hnd, rec, buf,
                   groups, idx, ret, redacted, nwrites, ncalls, enabled, pureVars>>

\* Handle has returned ret[p]; the goroutine goes on
Return(p) ==
    /\ pc[p] = "done"
    /\ pc' = [pc EXCEPT ![p] = "idle"]
    /\ hnd' = [hnd EXCEPT ![p] = 0]
    /\ rec' = [rec EXCEPT ![p] = NoRecord]
    /\ groups' = [groups EXCEPT ![p] = NilStrings]
    /\ idx' = [idx EXCEPT ![p] = 0]
    /\ ret' = [ret EXCEPT ![p] = ""]
    /\ redacted' = [redacted EXCEPT ![p] = <<>>]
    /\ nwrites' = [nwrites EXCEPT ![p] = 0]
    /\ UNCHANGED <<derivVars, strArrays, mutex, pcCaches, sink, raced, pool, held, buf,
                   ncalls, enabled, pureVars>>

\* the steps of a Handle call after its start
HandleStep(p) ==
    \/ Lock(p)
    \/ Classify(p)
    \/ WriteLevel(p)
    \/ WriteCaller(p)
    \/ WriteLabel(p)
    \/ WriteAttached(p)
    \/ RecordAttr(p)
    \/ WriteCall(p)
    \/ \E e \in WriteResults, torn \in BOOLEAN : WriteReturn(p, e, torn)
    \/ Release(p)
    \/ Unlock(p)
    \/ Return(p)

\* the calls of the function passed to r.Attrs from attribute i on: the buffer
\* after them
RECURSIVE RecordAttrs(_, _, _, _, _)
RecordAttrs(b, h, attrs, i, g) ==
    IF i > Len(attrs) THEN b
    ELSE LET x == RecordAttrSegment(b, h, attrs[i], g)
         IN RecordAttrs(x.buf, h, attrs, i + 1, [g EXCEPT !.arr = x.arr])

\* the whole line Handle hands to Write for record r on handler h, the caller
\* cache holding cache, over the heaps sa and aa
HandleLineIn(sa, aa, h, r, cache) ==
    LET b1 == LevelSegment(<<>>, h, r, <<>>)
        b2 == CallerSegment(b1, h, r, cache).buf
        b3 == LabelSegment(b2, h, r, <<>>)
        g == HandleGroupsIn(sa, h)
        at == AttachedSegmentIn(aa, b3, h, g)
    IN Append(RecordAttrs(at.buf, h, r.Attrs, 1, [g EXCEPT !.arr = at.arr]), "\n")

HandleLine(h, r, cache) == HandleLineIn(strArrays, attrArrays, h, r, cache)

\* --------------------------------------------------------------- derivation

procVars == <<pc, hnd, rec, buf, groups, idx, ret, redacted, nwrites, ncalls>>

RECURSIVE MapAttrHandler(_, _)
MapAttrHandler(fn, attrs) ==
    IF attrs = <<>> THEN <<>>
    ELSE <<CallAttrHandler(fn, Head(attrs))>> \o MapAttrHandler(fn, Tail(attrs))

\* a WithAttrs that passes only the new attributes through the attrHandler
WithAttrsListNewOnly(h, attrs) ==
    IF h.attrHandler = "nil" THEN AttrsOf(h.attrs) \o attrs
    ELSE AttrsOf(h.attrs) \o MapAttrHandler(h.attrHandler, attrs)

\* the attribute list WithAttrs gives the new handler
WithAttrsList(h, attrs) ==
    IF h.attrHandler = "nil" THEN AttrsOf(h.attrs) \o attrs
    ELSE MapAttrHandler(h.attrHandler, AttrsOf(h.attrs)) \o MapAttrHandler(h.attrHandler, attrs)

\* a rendering of list a that leaves the groups of the handler out
WithAttrsRenderUngrouped(h, a, b) ==
    WriteAttrs(BufReset(b), a, 1, MakeStrings(0, h.groups.len), StyleOf(h.style)).buf

\* the bytes WithAttrs renders list a into, b being the buffer it got
WithAttrsRender(h, a, b) ==
    LET g0 == MakeStrings(0, h.groups.len)
        g == IF h.groups.len > 0 THEN AppendStrings(g0, Elems(StringsOf(h.groups))) ELSE g0
    IN WriteAttrs(BufReset(b), a, 1, g, StyleOf(h.style)).buf

NoWithAttrs == [pc |-> "idle", h |-> 0, given |-> <<>>, a |-> <<>>, buf |-> <<>>]

\* a WithAttrs that copies its receiver whatever it is given
WithAttrsCallAlways(h, attrs) ==
    /\ wa.pc = "idle"
    /\ \E g \in PoolGet(pool) :
         LET a == WithAttrsList(handlers[h], attrs)
         IN /\ wa' = [pc |-> "built", h |-> h, given |-> attrs, a |-> a,
                      buf |-> WithAttrsRender(handlers[h], a, g.b)]
            /\ pool' = g.pool
            /\ held' = held + 1
            /\ derived' = derived
    /\ UNCHANGED <<handlers, attrArrays, strArrays, history, mutex, pcCaches, sink, raced,
                   procVars, enabled, pureVars>>

\* h.WithAttrs(attrs) up to the rendering of the cache into a pool buffer; with
\* no attributes it returns h at once
WithAttrsCall(h, attrs) ==
    /\ wa.pc = "idle"
    /\ IF Len(attrs) = 0
       THEN /\ derived' = Derived("WithAttrs", h, attrs, h)
            /\ UNCHANGED <<wa, pool, held>>
       ELSE \E g \in PoolGet(pool) :
              LET a == WithAttrsList(handlers[h], attrs)
              IN /\ wa' = [pc |-> "built", h |-> h, given |-> attrs, a |-> a,
                           buf |-> WithAttrsRender(handlers[h], a, g.b)]
                 /\ pool' = g.pool
                 /\ held' = held + 1
                 /\ derived' = derived
    /\ UNCHANGED <<handlers, attrArrays, strArrays, history, mutex, pcCaches, sink, raced,
                   procVars, enabled, pureVars>>

\* a WithAttrs that builds the new list in the array of its receiver when the
\* receiver has one
WithAttrsReturnInPlace ==
    /\ wa.pc = "built"
    /\ LET h == handlers[wa.h]
           hasGroups == h.groups.len > 0
           arr == IF h.attrs.arr # 0 THEN h.attrs.arr ELSE Len(attrArrays) + 1
           h2 == [h EXCEPT
                    !.attrs = [arr |-> arr, len |-> Len(wa.a)],
                    !.attrsCache = IF Len(wa.buf) > 0 THEN wa.buf ELSE <<>>,
                    !.groupsCache = IF hasGroups
                                    THEN [arr |-> Len(strArrays) + 1, len |-> h.groups.len]
                                    ELSE NilSlice]
       IN /\ attrArrays' = IF h.attrs.arr # 0 THEN [attrArrays EXCEPT ![arr] = wa.a]
                           ELSE Append(attrArrays, wa.a)
          /\ strArrays' = IF hasGroups
                          THEN Append(strArrays, Elems(StringsOf(h.groups)))
                          ELSE strArrays
          /\ handlers' = Append(handlers, h2)
          /\ history' = Append(history, Append(history[wa.h],
                                               [op |-> "WithAttrs", attrs |-> wa.given,
                                                name |-> <<>>]))
          /\ derived' = Derived("WithAttrs", wa.h, wa.given, Len(handlers) + 1)
    /\ pool' = PoolPut(pool, BufReset(wa.buf))
    /\ held' = held - 1
    /\ wa' = NoWithAttrs
    /\ UNCHANGED <<mutex, pcCaches, sink, raced, procVars, enabled, pureVars>>

\* the rest of WithAttrs: the cache is copied out of the buffer, the buffer
\* goes back to the pool, the groups are snapshotted and &h2 is returned
WithAttrsReturn ==
    /\ wa.pc = "built"
    /\ LET h == handlers[wa.h]
           hasGroups == h.groups.len > 0
           h2 == [h EXCEPT
                    !.attrs = [arr |-> Len(attrArrays) + 1, len |-> Len(wa.a)],
                    !.attrsCache = IF Len(wa.buf) > 0 THEN wa.buf ELSE <<>>,
                    !.groupsCache = IF hasGroups
                                    THEN [arr |-> Len(strArrays) + 1, len |-> h.groups.len]
                                    ELSE NilSlice]
       IN /\ attrArrays' = Append(attrArrays, wa.a)
          /\ strArrays' = IF hasGroups
                          THEN Append(strArrays, Elems(StringsOf(h.groups)))
                          ELSE strArrays
          /\ handlers' = Append(handlers, h2)
          /\ history' = Append(history, Append(history[wa.h],
                                               [op |-> "WithAttrs", attrs |-> wa.given,
                                                name |-> <<>>]))
          /\ derived' = Derived("WithAttrs", wa.h, wa.given, Len(handlers) + 1)
    /\ pool' = PoolPut(pool, BufReset(wa.buf))
    /\ held' = held - 1
    /\ wa' = NoWithAttrs
    /\ UNCHANGED <<mutex, pcCaches, sink, raced, procVars, enabled, pureVars>>

\* a WithGroup that appends the name to the groups of its receiver and returns
\* the receiver
WithGroupInPlace(h, name) ==
    /\ IF name = <<>>
       THEN UNCHANGED <<handlers, strArrays, history>>
       ELSE LET gs == Append(Elems(StringsOf(handlers[h].groups)), name)
                h2 == [handlers[h] EXCEPT
                         !.groups = [arr |-> Len(strArrays) + 1, len |-> Len(gs)],
                         !.attrsCache = <<>>,
                         !.groupsCache = [arr |-> Len(strArrays) + 2, len |-> Len(gs)]]
            IN /\ strArrays' = strArrays \o <<gs, gs>>
               /\ handlers' = [handlers EXCEPT ![h] = h2]
               /\ history' = [history EXCEPT ![h] =
                                 Append(@, [op |-> "WithGroup", attrs |-> <<>>,
                                            name |-> name])]
    /\ derived' = Derived("WithGroup", h, name, h)
    /\ UNCHANGED <<attrArrays, wa, mutex, pcCaches, sink, raced, pool, held, procVars,
                   enabled, pureVars>>

\* a WithGroup that keeps the attrsCache of its receiver
WithGroupKeepCache(h, name) ==
    /\ IF name = <<>>
       THEN /\ derived' = Derived("WithGroup", h, name, h)
            /\ UNCHANGED <<handlers, strArrays, history>>
       ELSE LET gs == Append(Elems(StringsOf(handlers[h].groups)), name)
                h2 == [handlers[h] EXCEPT
                         !.groups = [arr |-> Len(strArrays) + 1, len |-> Len(gs)],
                         !.groupsCache = [arr |-> Len(strArrays) + 2, len |-> Len(gs)]]
            IN /\ strArrays' = strArrays \o <<gs, gs>>
               /\ handlers' = Append(handlers, h2)
               /\ history' = Append(history, Append(history[h],
                                                    [op |-> "WithGroup", attrs |-> <<>>,
                                                     name |-> name]))
               /\ derived' = Derived("WithGroup", h, name, Len(handlers) + 1)
    /\ UNCHANGED <<attrArrays, wa, mutex, pcCaches, sink, raced, pool, held, procVars,
                   enabled, pureVars>>

\* h.WithGroup(name)
WithGroup(h, name) ==
    /\ IF name = <<>>
       THEN /\ derived' = Derived("WithGroup", h, name, h)
            /\ UNCHANGED <<handlers, strArrays, history>>
       ELSE LET gs == Append(Elems(StringsOf(handlers[h].groups)), name)
                h2 == [handlers[h] EXCEPT
                         !.groups = [arr |-> Len(strArrays) + 1, len |-> Len(gs)],
                         !.attrsCache = <<>>,
                         !.groupsCache = [arr |-> Len(strArrays) + 2, len |-> Len(gs)]]
            IN /\ strArrays' = strArrays \o <<gs, gs>>
               /\ handlers' = Append(handlers, h2)
               /\ history' = Append(history, Append(history[h],
                                                    [op |-> "WithGroup", attrs |-> <<>>,
                                                     name |-> name]))
               /\ derived' = Derived("WithGroup", h, name, Len(handlers) + 1)
    /\ UNCHANGED <<attrArrays, wa, mutex, pcCaches, sink, raced, pool, held, procVars,
                   enabled, pureVars>>

\* ------------------------------------------------------------------ Enabled

\* a goroutine calls h.Enabled(ctx, level)
EnabledCall(h, level) ==
    /\ enabled' = [h |-> h, level |-> level, result |-> Enabled(handlers[h], level)]
    /\ UNCHANGED <<handlers, attrArrays, strArrays, history, derived, wa, mutex, pcCaches,
                   sink, raced, pool, held, procVars, pureVars>>

\* a handler built as a struct literal with the given level field, the way the
\* package's tests build theirs
LiteralHandler(level) == [ZeroHandler EXCEPT !.level = level, !.style = "Style0"]

\* ------------------------------------------------------------ specifications

InitLocals ==
    /\ attrArrays = <<>>
    /\ strArrays = <<>>
    /\ sink = <<>>
    /\ raced = {}
    /\ pool = <<>>
    /\ held = 0
    /\ pc = [p \in Procs |-> "idle"]
    /\ hnd = [p \in Procs |-> 0]
    /\ rec = [p \in Procs |-> NoRecord]
    /\ buf = [p \in Procs |-> <<>>]
    /\ groups = [p \in Procs |-> NilStrings]
    /\ idx = [p \in Procs |-> 0]
    /\ ret = [p \in Procs |-> ""]
    /\ redacted = [p \in Procs |-> <<>>]
    /\ nwrites = [p \in Procs |-> 0]
    /\ ncalls = 0
    /\ derived = NoDerived
    /\ wa = NoWithAttrs
    /\ enabled = [h |-> 0, level |-> 0, result |-> FALSE]
    /\ call = NoCall
    /\ outer = [p \in Procs |-> NoFrame]

\* one root handler from NewCLIHandler with its own mutex and caller cache
InitRoot(options) ==
    /\ \E opts \in options : handlers = <<NewCLIHandler("buf", 1, 1, opts)>>
    /\ mutex = <<0>>
    /\ pcCaches = << <<>> >>
    /\ history = << <<>> >>
    /\ styles = <<>>
    /\ levelMaps = <<>>
    /\ InitLocals

\* handler values that exist or are being built
NHandlers == Len(handlers) + (IF wa.pc = "built" THEN 1 ELSE 0)

\* Spec: goroutines log through the handlers of one family while handlers
\* are derived
Init == InitRoot(RootOptions)

Next ==
    \/ /\ ncalls < MaxCalls
       /\ \E p \in Procs, h \in 1..Len(handlers), r \in Records : HandleCall(p, h, r)
    \/ \E p \in Procs : HandleStep(p)
    \/ /\ NHandlers < MaxFamily
       /\ \E h \in 1..Len(handlers) : WithAttrsCall(h, <<String(<<"a">>, <<"1">>)>>)
    \/ WithAttrsReturn
    \/ /\ NHandlers < MaxFamily
       /\ \E h \in 1..Len(handlers) : WithGroup(h, <<"g">>)

Spec == Init /\ [][Next]_vars

\* SpecDerive: one goroutine derives handlers and logs through them, one call
\* after the other
InitDerive == InitRoot(DeriveOptions)

NextDerive ==
    \/ /\ ncalls < MaxRenders
       /\ wa.pc = "idle"
       /\ \E h \in 1..Len(handlers), r \in DeriveRecords : HandleCall(1, h, r)
    \/ HandleStep(1)
    \/ /\ NHandlers < MaxHandlers
       /\ pc[1] = "idle"
       /\ \E h \in 1..Len(handlers), attrs \in AttrLists : WithAttrsCall(h, attrs)
    \/ WithAttrsReturn
    \/ /\ NHandlers < MaxHandlers
       /\ pc[1] = "idle"
       /\ wa.pc = "idle"
       /\ \E h \in 1..Len(handlers), name \in GroupNames : WithGroup(h, name)

SpecDerive == InitDerive /\ [][NextDerive]_vars

\* SpecTwin: two handlers from two NewCLIHandler calls with the same options,
\* each with its own mutex and caller cache; goroutines log through both
MaxTwinCalls == 3

TwinRecords == {RecB, RecSecret}

InitTwin ==
    /\ \E opts \in RootOptions :
         handlers = <<NewCLIHandler("buf", 1, 1, opts), NewCLIHandler("buf", 2, 2, opts)>>
    /\ mutex = <<0, 0>>
    /\ pcCaches = << <<>>, <<>> >>
    /\ history = << <<>>, <<>> >>
    /\ styles = <<>>
    /\ levelMaps = <<>>
    /\ InitLocals

NextTwin ==
    \/ /\ ncalls < MaxTwinCalls
       /\ \E p \in Procs, h \in 1..Len(handlers), r \in TwinRecords : HandleCall(p, h, r)
    \/ \E p \in Procs : HandleStep(p)

SpecTwin == InitTwin /\ [][NextTwin]_vars

\* SpecLine: one goroutine logs through a root handler with any combination of
\* style, label, time and caller, and through root.WithAttrs([a=1])
MaxLineCalls == 2

RecInfo ==
    Record(LevelInfo, <<"i", "n", "f", "o", " ", "m", "e", "s", "s", "a", "g", "e">>, 0, <<>>)

LineRecords == {RecInfo, RecB}

LineOptions ==
    { <<WithStyle(s), WithLabel(l), WithTime(t), WithCaller(c)>> :
        s \in {"Style0", "Style3"}, l \in {<<>>, <<"L">>}, t \in BOOLEAN, c \in BOOLEAN }

InitLine == InitRoot(LineOptions)

NextLine ==
    \/ /\ ncalls < MaxLineCalls
       /\ wa.pc = "idle"
       /\ \E h \in 1..Len(handlers), r \in LineRecords : HandleCall(1, h, r)
    \/ HandleStep(1)
    \/ /\ NHandlers < MaxFamily
       /\ pc[1] = "idle"
       /\ \E h \in 1..Len(handlers) : WithAttrsCall(h, <<String(<<"a">>, <<"1">>)>>)
    \/ WithAttrsReturn

SpecLine == InitLine /\ [][NextLine]_vars

\* SpecAttr: writeAttr called on its own with an attribute and a groups slice,
\* and Handle called with records carrying groups on handlers with groups
MaxGroupHandlers == 3
MaxAttrCalls == 1

LeafKeyValue == String(<<"k", "e", "y">>, <<"v", "a", "l", "u", "e">>)
LeafC == String(<<"c">>, <<"3">>)
LeafD == Int64(<<"d">>, 4)

OuterInner ==
    Group(<<"o", "u", "t", "e", "r">>, <<Group(<<"i", "n", "n", "e", "r">>, <<LeafKeyValue>>)>>)

AttrInputs ==
    { LeafKeyValue,
      OuterInner,
      Group(<<"q">>, <<LeafC, LeafD>>),
      Group(<<"q">>, <<Group(<<"r">>, <<LeafC>>), LeafD>>),
      Group(<<"q">>, <<Group(<<"r">>, <<LeafC>>), Group(<<"s">>, <<LeafD, LeafC>>)>>),
      Group(<<"q">>, <<LeafC, Group(<<"e">>, <<>>), LeafD>>),
      Group(<<"q">>, <<>>) }

\* groups slices writeAttr is called with: nil, empty, full, and with room
GroupInputs ==
    { NilStrings,
      MakeStrings(0, 0),
      AppendStrings(MakeStrings(0, 1), << <<"g">> >>),
      AppendStrings(MakeStrings(0, 2), << <<"g">>, <<"h">> >>),
      AppendStrings(MakeStrings(0, 3), << <<"g">> >>),
      MakeStrings(0, 10) }

GroupRecords == { Record(LevelInfo, <<"m">>, 0, <<a, LeafD>>) : a \in AttrInputs }

\* h.writeAttr(buf, attr, g, h.style, h.timeLayout) on an empty buffer
WriteAttrCall(p, h, attr, g) ==
    /\ pc[p] = "idle"
    /\ pc' = [pc EXCEPT ![p] = "wrote"]
    /\ hnd' = [hnd EXCEPT ![p] = h]
    /\ rec' = [rec EXCEPT ![p] = [NoRecord EXCEPT !.Attrs = <<attr>>]]
    /\ groups' = [groups EXCEPT ![p] = g]
    /\ buf' = [buf EXCEPT ![p] = writeAttr(<<>>, attr, g, StyleOf(handlers[h].style)).buf]
    /\ UNCHANGED <<derivVars, strArrays, mutex, pcCaches, sink, raced, pool, held, idx, ret,
                   redacted, nwrites, ncalls, enabled, pureVars>>

\* the caller of writeAttr goes on
WriteAttrReturn(p) ==
    /\ pc[p] = "wrote"
    /\ pc' = [pc EXCEPT ![p] = "idle"]
    /\ hnd' = [hnd EXCEPT ![p] = 0]
    /\ rec' = [rec EXCEPT ![p] = NoRecord]
    /\ groups' = [groups EXCEPT ![p] = NilStrings]
    /\ buf' = [buf EXCEPT ![p] = <<>>]
    /\ UNCHANGED <<derivVars, strArrays, mutex, pcCaches, sink, raced, pool, held, idx, ret,
                   redacted, nwrites, ncalls, enabled, pureVars>>

InitAttr == InitRoot({<<WithStyle("Style0")>>})

NextAttr ==
    \/ \E h \in 1..Len(handlers), attr \in AttrInputs, g \in GroupInputs :
         WriteAttrCall(1, h, attr, g)
    \/ WriteAttrReturn(1)
    \/ /\ ncalls < MaxAttrCalls
       /\ \E h \in 1..Len(handlers), r \in GroupRecords : HandleCall(1, h, r)
    \/ HandleStep(1)
    \/ /\ Len(handlers) < MaxGroupHandlers
       /\ pc[1] = "idle"
       /\ \E h \in 1..Len(handlers), name \in {<<"g">>, <<"h">>} : WithGroup(h, name)

SpecAttr == InitAttr /\ [][NextAttr]_vars

\* SpecLevel: one goroutine logs records of every severity from LevelMargin
\* below debug to LevelMargin above error
LevelMargin == 2
MaxLevelCalls == 2

LevelRecords ==
    { Record(l, <<"m">>, 0, <<String(<<"b">>, <<"2">>)>>) :
        l \in (LevelDebug - LevelMargin)..(LevelError + LevelMargin) }

InitLevel == InitRoot({<<WithStyle("Style0")>>, <<WithStyle("Style3")>>})

NextLevel ==
    \/ /\ ncalls < MaxLevelCalls
       /\ \E r \in LevelRecords : HandleCall(1, 1, r)
    \/ HandleStep(1)

SpecLevel == InitLevel /\ [][NextLevel]_vars

\* SpecQuote: writeAttr called with a string attribute k whose value is any
\* text of up to MaxQuoteLen characters, plain and special ones
MaxQuoteLen == 3

QuoteAlphabet == {"a", " ", "\t", "\n", "\r", "\\", "\""}

QuoteValues == UNION { [1..n -> QuoteAlphabet] : n \in 0..MaxQuoteLen }

InitQuote == InitRoot({<<WithStyle("Style0")>>})

NextQuote ==
    \/ \E v \in QuoteValues : WriteAttrCall(1, 1, String(<<"k">>, v), NilStrings)
    \/ WriteAttrReturn(1)

SpecQuote == InitQuote /\ [][NextQuote]_vars

\* SpecAlign: align called on an empty buffer with a text of up to MaxAlignLen
\* characters, narrow, wide and of no width, and a width of -1..MaxAlignWidth
MaxAlignLen == 3
MaxAlignWidth == 6

AlignTexts == UNION { [1..n -> {"a", "W", "^"}] : n \in 0..MaxAlignLen }

AlignWidths == (0 - 1)..MaxAlignWidth

\* align(buf, s, w) on an empty buffer
AlignCall(s, w) ==
    /\ call' = [fn |-> "align", args |-> <<s, w>>, result |-> align(<<>>, s, w)]
    /\ UNCHANGED <<handlerVars, styles, levelMaps>>

InitAlign == InitRoot({<<>>})

NextAlign == \E s \in AlignTexts, w \in AlignWidths : AlignCall(s, w)

SpecAlign == InitAlign /\ [][NextAlign]_vars

\* SpecClone: Style values on a heap: a preset, or a Style literal without a
\* level map, its clones, and assignments to the level entries and the fields
\* of each of them
MaxStyles == 2

\* the Style value a preset function returns, its level map at index m
PresetStyle(preset, m) == [preset EXCEPT !.Level = m]

LevelKeys == {LevelInfo, LevelError + 4}

LevelValues == { LevelStyle(<<"M", "O", "D", "I", "F", "I", "E", "D">>, NilColor, 0) }

\* a Clone that copies the struct only
CloneShallow(s) ==
    /\ Len(styles) < MaxStyles
    /\ IF s = 0
       THEN /\ call' = [fn |-> "Clone", args |-> <<0>>, result |-> 0]
            /\ UNCHANGED <<styles, levelMaps>>
       ELSE /\ styles' = Append(styles, styles[s])
            /\ levelMaps' = levelMaps
            /\ call' = [fn |-> "Clone", args |-> <<s>>, result |-> Len(styles) + 1]
    /\ UNCHANGED handlerVars

\* s.Clone(), s being nil (0) or a style
Clone(s) ==
    /\ Len(styles) < MaxStyles
    /\ IF s = 0
       THEN /\ call' = [fn |-> "Clone", args |-> <<0>>, result |-> 0]
            /\ UNCHANGED <<styles, levelMaps>>
       ELSE LET n == styles[s]
            IN /\ IF n.Level # 0
                  THEN /\ levelMaps' = Append(levelMaps, levelMaps[n.Level])
                       /\ styles' = Append(styles, [n EXCEPT !.Level = Len(levelMaps) + 1])
                  ELSE /\ levelMaps' = levelMaps
                       /\ styles' = Append(styles, n)
               /\ call' = [fn |-> "Clone", args |-> <<s>>, result |-> Len(styles) + 1]
    /\ UNCHANGED handlerVars

\* s.Level[k] = ls, on a style whose level map is not nil
SetLevel(s, k, ls) ==
    /\ styles[s].Level # 0
    /\ levelMaps' = [levelMaps EXCEPT ![styles[s].Level] = (k :> ls) @@ @]
    /\ call' = [fn |-> "SetLevel", args |-> <<s>>, result |-> 0]
    /\ UNCHANGED <<handlerVars, styles>>

\* s.Label.Width = w, s.Attr.Separator = sep, s.Caller.Fullpath = b
SetLabelWidth(s, w) ==
    /\ styles' = [styles EXCEPT ![s].Label.Width = w]
    /\ call' = [fn |-> "SetLabelWidth", args |-> <<s>>, result |-> 0]
    /\ UNCHANGED <<handlerVars, levelMaps>>

SetSeparator(s, sep) ==
    /\ styles' = [styles EXCEPT ![s].Attr.Separator = sep]
    /\ call' = [fn |-> "SetSeparator", args |-> <<s>>, result |-> 0]
    /\ UNCHANGED <<handlerVars, levelMaps>>

SetFullpath(s, b) ==
    /\ styles' = [styles EXCEPT ![s].Caller.Fullpath = b]
    /\ call' = [fn |-> "SetFullpath", args |-> <<s>>, result |-> 0]
    /\ UNCHANGED <<handlerVars, levelMaps>>

InitClone ==
    /\ handlers = <<NewCLIHandler("buf", 1, 1, <<>>)>>
    /\ mutex = <<0>>
    /\ pcCaches = << <<>> >>
    /\ history = << <<>> >>
    /\ InitLocals
    /\ \/ \E preset \in {Style0, Style3} :
            /\ styles = <<PresetStyle(preset, 1)>>
            /\ levelMaps = <<preset.Level>>
       \/ /\ styles = <<PresetStyle(Style0, 0)>>
          /\ levelMaps = <<>>

NextClone ==
    \/ \E s \in 0..Len(styles) : Clone(s)
    \/ \E s \in 1..Len(styles), k \in LevelKeys, ls \in LevelValues : SetLevel(s, k, ls)
    \/ \E s \in 1..Len(styles) : SetLabelWidth(s, 99)
    \/ \E s \in 1..Len(styles) : SetSeparator(s, <<":">>)
    \/ \E s \in 1..Len(styles) : SetFullpath(s, TRUE)

SpecClone == InitClone /\ [][NextClone]_vars

\* SpecColor: WriteString and WriteBytes of a nil *Color, of NewColor() and of
\* colors with one and two codes, on any content of up to MaxContentLen
\* characters and a buffer that is empty or not
MaxContentLen == 3

Colors == {NilColor, NewColor(<<>>), NewColor(<<FgHiRed>>), NewColor(<<FgHiBlack, Bold>>)}

Contents == UNION { [1..n -> {"a", "b"}] : n \in 0..MaxContentLen }

Buffers == {<<>>, <<"x">>}

\* c.WriteString(buf, s)
WriteStringCall(c, b, s) ==
    /\ call' = [fn |-> "WriteString", args |-> <<c, b, s>>, result |-> ColorWriteString(c, b, s)]
    /\ UNCHANGED <<handlerVars, styles, levelMaps>>

\* c.WriteBytes(buf, s)
WriteBytesCall(c, b, s) ==
    /\ call' = [fn |-> "WriteBytes", args |-> <<c, b, s>>, result |-> ColorWriteBytes(c, b, s)]
    /\ UNCHANGED <<handlerVars, styles, levelMaps>>

InitColor == InitRoot({<<>>})

NextColor ==
    \/ \E c \in Colors, b \in Buffers, s \in Contents : WriteStringCall(c, b, s)
    \/ \E c \in Colors, b \in Buffers, s \in Contents : WriteBytesCall(c, b, s)

SpecColor == InitColor /\ [][NextColor]_vars

\* SpecReenter: the attrHandler "relog" of the first of two roots logs a
\* record through a handler before it returns its argument; goroutines log
\* through the handlers and derive handlers by WithAttrs
MaxReenterCalls == 1
MaxReenterHandlers == 3

\* the record the attrHandler logs
RecPlain == Record(LevelInfo, <<"x">>, 0, <<>>)

\* what a goroutine keeps of the call that invoked the attrHandler
Frame(ctx, p, h, attrs) ==
    [ctx |-> ctx, h |-> h, attrs |-> attrs, pc |-> pc[p], hnd |-> hnd[p], rec |-> rec[p],
     buf |-> buf[p], groups |-> groups[p], idx |-> idx[p], ret |-> ret[p],
     redacted |-> redacted[p], nwrites |-> nwrites[p]]

\* the attrHandler, running on goroutine p, calls t.Handle(ctx, RecPlain)
Relog(p, t) ==
    /\ pc' = [pc EXCEPT ![p] = "lock"]
    /\ hnd' = [hnd EXCEPT ![p] = t]
    /\ rec' = [rec EXCEPT ![p] = RecPlain]
    /\ buf' = [buf EXCEPT ![p] = <<>>]
    /\ groups' = [groups EXCEPT ![p] = NilStrings]
    /\ idx' = [idx EXCEPT ![p] = 0]
    /\ ret' = [ret EXCEPT ![p] = ""]
    /\ redacted' = [redacted EXCEPT ![p] = <<>>]
    /\ nwrites' = [nwrites EXCEPT ![p] = 0]

\* Handle call p is about to invoke h.attrHandler "relog" on a record attribute
AtAttrHandler(p) ==
    /\ pc[p] = "attrs"
    /\ idx[p] <= Len(rec[p].Attrs)
    /\ rec[p].Attrs[idx[p]].Key # <<>>
    /\ Handler(p).attrHandler = "relog"

\* attr = h.attrHandler(attr) in the function passed to r.Attrs: the function
\* starts its Handle call on handler t
AttrHandlerCall(p, t) ==
    /\ AtAttrHandler(p)
    /\ outer[p] = NoFrame
    /\ outer' = [outer EXCEPT ![p] = Frame("Handle", p, hnd[p], <<>>)]
    /\ Relog(p, t)
    /\ UNCHANGED <<derivVars, strArrays, mutex, pcCaches, sink, raced, pool, held, ncalls,
                   enabled, call, styles, levelMaps>>

\* the Handle call of the function has returned and so does the function:
\* the function passed to r.Attrs writes the attribute
AttrHandlerReturn(p) ==
    /\ pc[p] = "done"
    /\ outer[p].ctx = "Handle"
    /\ LET f == outer[p]
           a0 == f.rec.Attrs[f.idx]
           g == IF f.groups.ref # 0 THEN [f.groups EXCEPT !.arr = strArrays[f.groups.ref]]
                ELSE f.groups
           r == RecordAttrSegment(f.buf, handlers[f.hnd], a0, g)
           g2 == [g EXCEPT !.arr = r.arr]
       IN /\ buf' = [buf EXCEPT ![p] = r.buf]
          /\ groups' = [groups EXCEPT ![p] = g2]
          /\ strArrays' = StoreStrings(strArrays, g2)
          /\ redacted' = [redacted EXCEPT ![p] = Append(f.redacted, <<a0, r.out>>)]
          /\ pc' = [pc EXCEPT ![p] = f.pc]
          /\ hnd' = [hnd EXCEPT ![p] = f.hnd]
          /\ rec' = [rec EXCEPT ![p] = f.rec]
          /\ idx' = [idx EXCEPT ![p] = f.idx + 1]
          /\ ret' = [ret EXCEPT ![p] = f.ret]
          /\ nwrites' = [nwrites EXCEPT ![p] = f.nwrites]
    /\ outer' = [outer EXCEPT ![p] = NoFrame]
    /\ UNCHANGED <<derivVars, mutex, pcCaches, sink, raced, pool, held, ncalls, enabled,
                   call, styles, levelMaps>>

\* goroutine p calls h.WithAttrs(attrs), h having the attrHandler "relog" and
\* nothing attached: h2.attrHandler(attr) in the loop over attrs, the function
\* starts its Handle call on handler t
WithAttrsEnter(p, h, attrs, t) ==
    /\ pc[p] = "idle"
    /\ wa.pc = "idle"
    /\ outer[p] = NoFrame
    /\ handlers[h].attrHandler = "relog"
    /\ handlers[h].attrs.len = 0
    /\ Len(attrs) = 1
    /\ outer' = [outer EXCEPT ![p] = Frame("WithAttrs", p, h, attrs)]
    /\ Relog(p, t)
    /\ UNCHANGED <<derivVars, strArrays, mutex, pcCaches, sink, raced, pool, held, ncalls,
                   enabled, call, styles, levelMaps>>

\* the Handle call of the function has returned and so does the function:
\* WithAttrs goes on to render the cache into a pool buffer
WithAttrsResume(p) ==
    /\ pc[p] = "done"
    /\ outer[p].ctx = "WithAttrs"
    /\ wa.pc = "idle"
    /\ LET f == outer[p]
       IN /\ \E g \in PoolGet(pool) :
               LET a == WithAttrsList(handlers[f.h], f.attrs)
               IN /\ wa' = [pc |-> "built", h |-> f.h, given |-> f.attrs, a |-> a,
                            buf |-> WithAttrsRender(handlers[f.h], a, g.b)]
                  /\ pool' = g.pool
                  /\ held' = held + 1
          /\ pc' = [pc EXCEPT ![p] = f.pc]
          /\ hnd' = [hnd EXCEPT ![p] = f.hnd]
          /\ rec' = [rec EXCEPT ![p] = f.rec]
          /\ buf' = [buf EXCEPT ![p] = f.buf]
          /\ groups' = [groups EXCEPT ![p] = f.groups]
          /\ idx' = [idx EXCEPT ![p] = f.idx]
          /\ ret' = [ret EXCEPT ![p] = f.ret]
          /\ redacted' = [redacted EXCEPT ![p] = f.redacted]
          /\ nwrites' = [nwrites EXCEPT ![p] = f.nwrites]
    /\ outer' = [outer EXCEPT ![p] = NoFrame]
    /\ UNCHANGED <<handlers, attrArrays, strArrays, history, derived, mutex, pcCaches, sink,
                   raced, ncalls, enabled, call, styles, levelMaps>>

\* the records logged through the handlers: an attribute without a key, which
\* no attrHandler sees, and one with a key
ReenterRecords ==
    { Record(LevelInfo, <<"m">>, 0, <<String(<<>>, <<"e">>), String(<<"b">>, <<"2">>)>>) }

InitReenter ==
    /\ handlers = << NewCLIHandler("buf", 1, 1, <<WithStyle("Style0"), WithAttrHandler("relog")>>),
                     NewCLIHandler("buf", 2, 2, <<WithStyle("Style0")>>) >>
    /\ mutex = <<0, 0>>
    /\ pcCaches = << <<>>, <<>> >>
    /\ history = << <<>>, <<>> >>
    /\ styles = <<>>
    /\ levelMaps = <<>>
    /\ InitLocals

\* a step of Handle other than the call of "relog" and the return into it
ReenterStep(p) ==
    /\ ~AtAttrHandler(p)
    /\ ~(pc[p] = "done" /\ outer[p] # NoFrame)
    /\ HandleStep(p)

NextReenter ==
    \/ /\ ncalls < MaxReenterCalls
       /\ \E p \in Procs, h \in 1..Len(handlers), r \in ReenterRecords :
            outer[p] = NoFrame /\ HandleCall(p, h, r)
    \/ \E p \in Procs : ReenterStep(p)
    \/ \E p \in Procs, t \in 1..Len(handlers) : AttrHandlerCall(p, t)
    \/ \E p \in Procs : AttrHandlerReturn(p)
    \/ /\ NHandlers < MaxReenterHandlers
       /\ \E p \in Procs, h, t \in 1..Len(handlers) :
            WithAttrsEnter(p, h, <<String(<<"a">>, <<"1">>)>>, t)
    \/ \E p \in Procs : WithAttrsResume(p)
    \/ WithAttrsReturn

SpecReenter == InitReenter /\ [][NextReenter]_vars

\* SpecSiblings: one goroutine derives up to MaxSiblings handlers from one
\* root, children and grandchildren, and logs through them
MaxSiblings == 4
MaxSiblingCalls == 2

SiblingAttrs == { <<String(<<"a">>, <<"1">>)>>, <<String(<<"b">>, <<"2">>)>> }

SiblingGroups == { <<"g">>, <<"h">> }

InitSiblings == InitRoot({<<WithStyle("Style0")>>, <<WithStyle("Style0"), WithAttrHandler("mark")>>})

NextSiblings ==
    \/ /\ ncalls < MaxSiblingCalls
       /\ wa.pc = "idle"
       /\ Len(handlers) >= 3
       /\ \E h \in 2..Len(handlers) : HandleCall(1, h, RecB)
    \/ HandleStep(1)
    \/ /\ NHandlers < MaxSiblings
       /\ pc[1] = "idle"
       /\ \E h \in 1..Len(handlers), attrs \in SiblingAttrs : WithAttrsCall(h, attrs)
    \/ WithAttrsReturn
    \/ /\ NHandlers < MaxSiblings
       /\ pc[1] = "idle"
       /\ wa.pc = "idle"
       /\ \E h \in 1..Len(handlers), name \in SiblingGroups : WithGroup(h, name)

SpecSiblings == InitSiblings /\ [][NextSiblings]_vars

\* SpecCache: goroutines log records of several program counters through the
\* handlers of one family with WithCaller(true)
MaxCacheCalls == 3

CacheRecords == { Record(LevelInfo, <<"m">>, p, <<String(<<"b">>, <<"2">>)>>) : p \in {1, 2, 4} }

InitCache == InitRoot({<<WithStyle("Style0"), WithCaller(TRUE)>>})

NextCache ==
    \/ /\ ncalls < MaxCacheCalls
       /\ \E p \in Procs, h \in 1..Len(handlers), r \in CacheRecords : HandleCall(p, h, r)
    \/ \E p \in Procs : HandleStep(p)
    \/ /\ NHandlers < MaxFamily
       /\ \E h \in 1..Len(handlers) : WithGroup(h, <<"g">>)

SpecCache == InitCache /\ [][NextCache]_vars

\* SpecOptions: NewCLIHandler called with every list of up to MaxOptions
\* options, nil ones among them, and handlers derived from what it returns
MaxOptions == 2
MaxRoots == 2
MaxOptionHandlers == 3

OptionInputs ==
    { WithLevel(NilLevel), WithLevel(Leveler(LevelDebug)), WithLevel(Leveler(LevelWarn)),
      WithLabel(<<"L">>), WithCaller(TRUE), WithTime(TRUE),
      WithTimeFormat(""), WithTimeFormat("Kitchen"),
      WithAttrHandler("nil"), WithAttrHandler("redact"),
      WithStyle("nil"), WithStyle("Style0") }

OptionLists == UNION { [1..n -> OptionInputs] : n \in 0..MaxOptions }

\* NewCLIHandler(w, opts...): a handler with a mutex and a pcCache of its own
NewCLIHandlerCall(w, opts) ==
    /\ handlers' = Append(handlers, NewCLIHandler(w, Len(mutex) + 1, Len(pcCaches) + 1, opts))
    /\ mutex' = Append(mutex, 0)
    /\ pcCaches' = Append(pcCaches, <<>>)
    /\ history' = Append(history, <<>>)
    /\ call' = [fn |-> "NewCLIHandler", args |-> opts, result |-> Len(handlers) + 1]
    /\ UNCHANGED <<attrArrays, strArrays, sink, raced, pool, held, procVars, derived, wa,
                   enabled, styles, levelMaps, outer>>

InitOptions == InitRoot({<<>>})

NextOptions ==
    \/ /\ Len(mutex) < MaxRoots
       /\ wa.pc = "idle"
       /\ \E opts \in OptionLists : NewCLIHandlerCall("buf", opts)
    \/ /\ NHandlers < MaxOptionHandlers
       /\ \E h \in 1..Len(handlers) : WithAttrsCall(h, <<String(<<"a">>, <<"1">>)>>)
    \/ WithAttrsReturn
    \/ /\ NHandlers < MaxOptionHandlers
       /\ wa.pc = "idle"
       /\ \E h \in 1..Len(handlers) : WithGroup(h, <<"g">>)

SpecOptions == InitOptions /\ [][NextOptions]_vars

\* SpecEnabled: Enabled on a handler from NewCLIHandler(w),
\* NewCLIHandler(w, WithLevel(l)) or a struct literal, l being nil or a level
Levels == (0 - MaxLevel)..MaxLevel

Levelers == {NilLevel} \cup {Leveler(l) : l \in Levels}

InitEnabled ==
    /\ \/ handlers = <<NewCLIHandler("buf", 1, 1, <<>>)>>
       \/ \E l \in Levelers :
            \/ handlers = <<NewCLIHandler("buf", 1, 1, <<WithLevel(l)>>)>>
            \/ handlers = <<LiteralHandler(l)>>
    /\ mutex = <<0>>
    /\ pcCaches = << <<>> >>
    /\ history = << <<>> >>
    /\ styles = <<>>
    /\ levelMaps = <<>>
    /\ InitLocals

NextEnabled == \E level \in Levels : EnabledCall(1, level)

SpecEnabled == InitEnabled /\ [][NextEnabled]_vars

\* ------------------------------------------------------------ serialization

\* the positions of Handle between h.mu.Lock() and the deferred Unlock
Critical ==
    {"classify", "level", "caller", "label", "attached", "attrs", "writing", "release",
     "unlock"}

InCritical(p) == pc[p] \in Critical

\* C1: of the concurrent Handle calls on the handlers derived from one root at
\* most one is between Lock and Unlock (level switch, caller cache, line
\* construction, Write) at any time, it is the one the mutex records, and no
\* line in the sink is torn by an overlapping Write.
C1_Serialized ==
    /\ \A p, q \in Procs :
         InCritical(p) /\ InCritical(q) /\ Handler(p).mu = Handler(q).mu => p = q
    /\ \A p \in Procs : InCritical(p) => mutex[Handler(p).mu] = p
    /\ raced = {}
    /\ \A i \in 1..Len(sink) : ~sink[i].torn

\* one goroutine is inside Write while another waits in Lock on a different
\* handler of the family
C1_Witness ==
    \E p, q \in Procs :
        /\ pc[p] = "writing"
        /\ pc[q] = "lock"
        /\ hnd[p] # hnd[q]
        /\ Handler(p).mu = Handler(q).mu

\* ---------------------------------------------------------------- redaction

HasKey(a) == a.Key # <<>>

\* every attribute of a list written in order, each after a space
RECURSIVE RenderAttrs(_, _, _, _, _)
RenderAttrs(b, attrs, i, g, style) ==
    IF i > Len(attrs) THEN [buf |-> b, arr |-> g.arr]
    ELSE LET r == writeAttr(Append(b, " "), attrs[i], g, style)
         IN RenderAttrs(r.buf, attrs, i + 1, [g EXCEPT !.arr = r.arr], style)

\* the line up to the attached attributes
LineHead(h, r, cache) ==
    LabelSegment(CallerSegment(LevelSegment(<<>>, h, r, <<>>), h, r, cache).buf, h, r, <<>>)

\* the line of a Handle call p up to and including its attached attributes
AttachedLine(p) ==
    AttachedSegment(LineHead(Handler(p), rec[p], pcCaches[Handler(p).pcCache]),
                    Handler(p), HandleGroups(Handler(p)))

\* the record attributes Handle has gone through at its position
AttrsDone(p) ==
    SubSeq(rec[p].Attrs, 1, IF pc[p] = "attrs" THEN idx[p] - 1 ELSE Len(rec[p].Attrs))

\* C7: in one Handle call on a handler with an attrHandler, the function has
\* been called exactly once for each record attribute with a non-empty key gone
\* through so far, in record order, on that attribute; and what the line
\* carries after the attached attributes is the attributes the function
\* returned, key and value.
C7_RedactedOnce ==
    \A p \in Procs :
        pc[p] \in {"attrs", "writing"} /\ Handler(p).attrHandler # "nil" =>
            LET h == Handler(p)
                log == redacted[p]
                ins == [i \in 1..Len(log) |-> log[i][1]]
                outs == [i \in 1..Len(log) |-> log[i][2]]
                at == AttachedLine(p)
                line == RenderAttrs(at.buf, outs, 1,
                                    [HandleGroups(h) EXCEPT !.arr = at.arr],
                                    StyleOf(h.style)).buf
            IN /\ ins = SelectSeq(AttrsDone(p), HasKey)
               /\ \A i \in 1..Len(log) : outs[i] = CallAttrHandler(h.attrHandler, ins[i])
               /\ buf[p] = IF pc[p] = "writing" THEN Append(line, "\n") ELSE line

\* a Handle call has gone through a record with a masked attribute, an
\* attribute with an empty key and a discarded attribute, and is in Write
C7_Witness ==
    \E p \in Procs :
        /\ pc[p] = "writing"
        /\ rec[p] = RecSecret
        /\ Handler(p).attrHandler = "redact"
        /\ Len(redacted[p]) = 2
        /\ redacted[p][1][2].Str = <<"*", "*", "*">>

\* the attributes of a list with a non-empty key, each passed through the
\* handler's attrHandler if it has one, those that come back with a non-empty key
Shown(h, attrs) ==
    LET kept == SelectSeq(attrs, HasKey)
        out == IF h.attrHandler = "nil" THEN kept
               ELSE [i \in 1..Len(kept) |-> CallAttrHandler(h.attrHandler, kept[i])]
    IN SelectSeq(out, HasKey)

\* C6: the line handed to Write carries no attribute with an empty key: it is
\* made of the attached attributes with a non-empty key and of the record
\* attributes whose key is non-empty both before redaction and in the attribute
\* the redaction function returns.
C6_NoEmptyKey ==
    \A p \in Procs :
        pc[p] = "writing" =>
            LET h == Handler(p)
                g == HandleGroups(h)
                head == LineHead(h, rec[p], pcCaches[h.pcCache])
                at == RenderAttrs(head, SelectSeq(AttrsOf(h.attrs), HasKey), 1, g,
                                  StyleOf(h.style))
                ra == RenderAttrs(at.buf, Shown(h, rec[p].Attrs), 1,
                                  [g EXCEPT !.arr = at.arr], StyleOf(h.style))
            IN buf[p] = Append(ra.buf, "\n")

\* p is at position i of buffer b
Holds(b, i, text) == i + Len(text) - 1 <= Len(b) /\ SubSeq(b, i, i + Len(text) - 1) = text

\* the line of a record whose attribute d the redaction function discards by
\* returning the zero Attr carries " =<nil>"
C6_EmptyKeyWritten ==
    \E p \in Procs :
        /\ pc[p] = "writing"
        /\ rec[p] = RecSecret
        /\ Handler(p).style = "Style0"
        /\ \E i \in 1..Len(buf[p]) : Holds(buf[p], i, <<" ", "=", "<", "n", "i", "l", ">">>)

\* ------------------------------------------------------- errors and buffers

\* the severities a record may carry to be rendered: debug, info, warn, and
\* error or above
Recognized(l) == l \in {LevelDebug, LevelInfo, LevelWarn} \/ l >= LevelError

\* goroutine p is in a Handle call on a record of unrecognized severity
Unrecognized(p) == pc[p] # "idle" /\ ~Recognized(rec[p].Level)

\* a Handle call on a record of unrecognized severity goes from Lock to the
\* level switch to Unlock only; it has written nothing, holds no buffer, and
\* once past the switch it returns the error; returned, it holds the mutex no
\* longer
UnknownLevelState ==
    \A p \in Procs :
        Unrecognized(p) =>
            /\ pc[p] \in {"lock", "classify", "unlock", "done"}
            /\ nwrites[p] = 0
            /\ buf[p] = <<>>
            /\ pc[p] \in {"unlock", "done"} => ret[p] = "unknown log level"
            /\ pc[p] = "done" => mutex[Handler(p).mu] # p

\* a step of such a call leaves the sink, the caller caches, the pool and the
\* handlers as they are
UnknownLevelStep ==
    \A p \in Procs :
        Unrecognized(p) /\ pc'[p] # pc[p] =>
            /\ sink' = sink
            /\ pcCaches' = pcCaches
            /\ pool' = pool
            /\ held' = held
            /\ handlers' = handlers

\* C8: Handle of a record with an unrecognized severity returns the error
\* "unknown log level" and has no other effect: nothing is written to the sink,
\* the caller cache and the pool are unchanged, no buffer is held, and the
\* mutex is released when the call returns.
C8_UnknownLevel == []UnknownLevelState /\ [][UnknownLevelStep]_vars

\* a call on a record of unrecognized severity has returned its error with
\* nothing written, and another call has taken the mutex after it
C8_Witness ==
    \E p, q \in Procs :
        /\ pc[p] = "done"
        /\ rec[p] = RecUnknown
        /\ ret[p] = "unknown log level"
        /\ sink = <<>>
        /\ pc[q] = "level"
        /\ mutex[Handler(q).mu] = q

\* a Handle call on a record of recognized severity that is past Write has made
\* one Write call; returned, it holds neither mutex nor buffer
OneWriteState ==
    \A p \in Procs :
        pc[p] # "idle" /\ Recognized(rec[p].Level) =>
            /\ pc[p] \in {"release", "unlock", "done"} => nwrites[p] = 1
            /\ pc[p] \in {"lock", "classify", "level", "caller", "label", "attached", "attrs"}
                 => nwrites[p] = 0
            /\ pc[p] = "done" => mutex[Handler(p).mu] # p /\ buf[p] = <<>>

\* the step in which Write returns hands the sink the whole line of the record,
\* newline at its end, and sets the result of Handle to the error of Write; no
\* other step adds to the sink
OneWriteStep ==
    /\ \A p \in Procs :
         pc[p] = "writing" /\ pc'[p] # "writing" =>
            /\ Len(sink') = Len(sink) + 1
            /\ SubSeq(sink', 1, Len(sink)) = sink
            /\ sink'[Len(sink')].data = HandleLine(Handler(p), rec[p], pcCaches[Handler(p).pcCache])
            /\ sink'[Len(sink')].data[Len(sink'[Len(sink')].data)] = "\n"
            /\ sink'[Len(sink')].w = Handler(p).w
            /\ ret'[p] = sink'[Len(sink')].err
            /\ pc'[p] = "release"
    /\ sink' # sink => \E p \in Procs : pc[p] = "writing" /\ pc'[p] = "release"
    /\ \A p \in Procs : pc[p] \in {"release", "unlock"} => ret'[p] = ret[p]

\* C9: every Handle of a record with a recognized severity makes exactly one
\* Write call on the sink, carrying the whole line with a newline at its end;
\* Handle returns the error of that Write unchanged, makes no second Write, and
\* has released the mutex and the buffer when it returns.
C9_OneWrite == []OneWriteState /\ [][OneWriteStep]_vars

\* a Handle call whose Write failed has returned the error of the sink
C9_Witness ==
    \E p \in Procs :
        /\ pc[p] = "done"
        /\ ret[p] = "EIO"
        /\ nwrites[p] = 1
        /\ Len(sink) = 1
        /\ sink[1].err = "EIO"

\* the Handle calls that hold their line buffer
HoldingBuffer == {p \in Procs : pc[p] \in {"level", "caller", "label", "attached", "attrs",
                                           "writing", "release"}}

NoOperation == wa.pc = "idle" /\ \A p \in Procs : pc[p] \in {"idle", "done"}

\* C10: the buffers taken from the pool and not yet put back are the line
\* buffers of the Handle calls between Get and the deferred Put and the buffer
\* of the WithAttrs call in progress; whenever no operation is in progress, no
\* buffer is outstanding.
C10_BuffersReturned ==
    /\ held = Cardinality(HoldingBuffer) + (IF wa.pc = "built" THEN 1 ELSE 0)
    /\ NoOperation => held = 0

\* a Handle call has returned a Write error, another has returned the
\* unknown-level error, a WithAttrs call has returned a handler, and nothing is
\* in progress
C10_Witness ==
    /\ NoOperation
    /\ \E p, q \in Procs :
         /\ pc[p] = "done" /\ ret[p] = "EIO"
         /\ pc[q] = "done" /\ ret[q] = "unknown log level"
    /\ \E h \in 1..Len(handlers) : history[h] # <<>> /\ history[h][1].op = "WithAttrs"

\* --------------------------------------------------------------- derivation

\* what handler h is and does in a state with handlers hs, heaps aa and sa and
\* caller caches cs: its fields, the attributes and groups its slices hold,
\* and the line it renders each record into
HandlerView(hs, aa, sa, cs, h) ==
    [fields |-> hs[h],
     attrs |-> AttrsIn(aa, hs[h].attrs),
     groups |-> Elems(StringsIn(sa, hs[h].groups)),
     groupsCache |-> Elems(StringsIn(sa, hs[h].groupsCache)),
     lines |-> [r \in DeriveRecords |-> HandleLineIn(sa, aa, hs[h], r, cs[hs[h].pcCache])]]

\* C2: WithAttrs and WithGroup never change a handler that exists: through any
\* step, every handler keeps its configuration, attribute list, group list,
\* cached attribute bytes and cached groups, and renders every record into the
\* same bytes as before.
C2_AncestorUnchanged ==
    [][\/ UNCHANGED <<handlers, attrArrays, strArrays, pcCaches>>
       \/ \A h \in 1..Len(handlers) :
            HandlerView(handlers', attrArrays', strArrays', pcCaches', h)
              = HandlerView(handlers, attrArrays, strArrays, pcCaches, h)]_vars

\* a handler with attached attributes from which a grouped handler has been
\* derived has rendered a record
C2_Witness ==
    /\ Len(handlers) = 3
    /\ history[2] # <<>> /\ history[2][1].op = "WithAttrs"
    /\ Len(history[3]) = 2 /\ history[3][2].op = "WithGroup"
    /\ SubSeq(history[3], 1, 1) = history[2]
    /\ pc[1] = "done"
    /\ hnd[1] = 2
    /\ Len(sink) = 1

\* the handler h.WithAttrs([a=1]).WithGroup("g") of a root h
AttrsThenGroup ==
    << [op |-> "WithAttrs", attrs |-> <<String(<<"a">>, <<"1">>)>>, name |-> <<>>],
       [op |-> "WithGroup", attrs |-> <<>>, name |-> <<"g">>] >>

\* C3: the line of a record carrying b=2, rendered through
\* h.WithAttrs([a=1]).WithGroup("g") for a root h without attrHandler, carries
\* the attached attribute as a=1, without the group, and the record attribute
\* as g.b=2.
C3_AttachedBeforeGroup ==
    \A p \in Procs :
        /\ pc[p] = "writing"
        /\ rec[p] = RecB
        /\ Handler(p).attrHandler = "nil"
        /\ history[hnd[p]] = AttrsThenGroup
        => buf[p] = <<"[", "W", "R", "N", "]", " ", "m",
                      " ", "a", "=", "1", " ", "g", ".", "b", "=", "2", "\n">>

\* the line the handler writes for that record: the attached attribute under
\* the group as well
C3_GroupedAttached ==
    \E p \in Procs :
        /\ pc[p] = "writing"
        /\ rec[p] = RecB
        /\ Handler(p).attrHandler = "nil"
        /\ history[hnd[p]] = AttrsThenGroup
        /\ buf[p] = <<"[", "W", "R", "N", "]", " ", "m",
                      " ", "g", ".", "a", "=", "1", " ", "g", ".", "b", "=", "2", "\n">>

\* ------------------------------------------------------------------ Enabled

\* the handlers whose threshold is set to t: by WithLevel, or in a literal
ThresholdSet(h, t) ==
    \/ h = NewCLIHandler("buf", 1, 1, <<WithLevel(Leveler(t))>>)
    \/ h = LiteralHandler(Leveler(t))

\* C4: on a handler whose threshold is set, Enabled(level) is true if and only
\* if level >= threshold, for every level and every threshold.
C4_EnabledIffAtLeast ==
    \A t \in Levels :
        enabled.h # 0 /\ ThresholdSet(handlers[enabled.h], t) =>
            (enabled.result <=> enabled.level >= t)

\* Enabled has been asked for the threshold itself and has answered true
C4_Witness ==
    /\ enabled.h # 0
    /\ ThresholdSet(handlers[enabled.h], LevelWarn)
    /\ enabled.level = LevelWarn
    /\ enabled.result

\* the handlers whose threshold is left unset: no WithLevel option or a nil one
\* at construction, or a nil level field
ThresholdUnset(h) ==
    \/ h = NewCLIHandler("buf", 1, 1, <<>>)
    \/ h = NewCLIHandler("buf", 1, 1, <<WithLevel(NilLevel)>>)
    \/ h.level.isnil

\* the statement that an unset threshold behaves as info on every handler:
\* Enabled(level) is true iff level >= info
C5_UnsetIsInfo ==
    enabled.h # 0 /\ ThresholdUnset(handlers[enabled.h]) =>
        (enabled.result <=> enabled.level >= LevelInfo)

\* C5: a handler NewCLIHandler builds with no threshold given (no WithLevel, or
\* WithLevel(nil)) has threshold info: Enabled(level) is true iff level >=
\* info.  A handler whose level field is nil (a struct literal or the zero
\* value) accepts every level: Enabled is true for debug, too.
C5_UnsetThreshold ==
    enabled.h # 0 =>
        LET h == handlers[enabled.h]
        IN /\ h \in {NewCLIHandler("buf", 1, 1, <<>>),
                     NewCLIHandler("buf", 1, 1, <<WithLevel(NilLevel)>>)}
                => (enabled.result <=> enabled.level >= LevelInfo)
           /\ h.level.isnil => enabled.result

\* Enabled has been asked for debug on a handler whose level field is nil and
\* has answered true
C5_Witness ==
    /\ enabled.h # 0
    /\ handlers[enabled.h].level.isnil
    /\ enabled.level = LevelDebug
    /\ enabled.result

\* ------------------------------------------------------------- caller cache

\* the records whose program counter is 0, resolvable (1), unknown to the
\* symbol table (2), or known without a file (3)
CallerRecords == { Record(LevelInfo, <<"m">>, p, <<>>) : p \in 0..3 } \cup {RecB}

\* the options of the root handler of SpecCaller
CallerOptions ==
    { <<WithStyle("Style0"), WithCaller(TRUE)>>,
      <<WithStyle("Style1"), WithCaller(TRUE)>>,
      <<WithStyle("Style0")>> }

\* SpecCaller: one goroutine logs records with various program counters
\* through the handlers of one family, one call after the other
InitCaller == InitRoot(CallerOptions)

NextCaller ==
    \/ /\ ncalls < MaxCalls
       /\ \E h \in 1..Len(handlers), r \in CallerRecords : HandleCall(1, h, r)
    \/ HandleStep(1)
    \/ /\ NHandlers < MaxFamily
       /\ pc[1] = "idle"
       /\ \E h \in 1..Len(handlers) : WithGroup(h, <<"g">>)

SpecCaller == InitCaller /\ [][NextCaller]_vars

\* the symbol table knows the counter and its file
Resolvable(p) == ~FuncForPC(p).isnil /\ FuncForPC(p).file # <<>>

\* function name, colon, line number
NameLine(p) == Append(FuncForPC(p).name, ":") \o AppendInt(<<>>, FuncForPC(p).line)

\* bytes between the prefix and the suffix of the caller style, and a space
Styled(b, bytes, style) ==
    LET c == style.Caller
    IN ColorWriteString(c.Suffix.Color,
                        ColorWriteBytes(c.Color,
                                        ColorWriteString(c.Prefix.Color, b, c.Prefix.Text),
                                        bytes),
                        c.Suffix.Text) \o <<" ">>

\* the "Add caller" step of goroutine p
CallerStep(p) == pc[p] = "caller" /\ pc'[p] # "caller"

\* C11: in the caller step of Handle, with h.hasCaller and a non-zero counter:
\* on a hit the cached bytes are written through the caller style and the
\* cache stays; on a miss the counter is resolved, name:line is stored under
\* the counter and written the same way; if resolution fails nothing is stored
\* or written and Handle goes on.  Without hasCaller or with a zero counter the
\* cache stays and nothing is written.
C11_CallerCache ==
    [][\A p \in Procs :
         CallerStep(p) =>
            LET h == Handler(p)
                n == rec[p].PC
                cache == pcCaches[h.pcCache]
                cache2 == pcCaches'[h.pcCache]
                style == StyleOf(h.style)
            IN /\ pc'[p] = "label"
               /\ ret'[p] = ret[p]
               /\ \A c \in 1..Len(pcCaches) : c # h.pcCache => pcCaches'[c] = pcCaches[c]
               /\ IF h.hasCaller /\ n # 0
                  THEN IF n \in DOMAIN cache
                       THEN /\ cache2 = cache
                            /\ buf'[p] = Styled(buf[p], cache[n], style)
                       ELSE IF Resolvable(n)
                            THEN /\ DOMAIN cache2 = DOMAIN cache \cup {n}
                                 /\ cache2[n] = NameLine(n)
                                 /\ \A k \in DOMAIN cache : cache2[k] = cache[k]
                                 /\ buf'[p] = Styled(buf[p], NameLine(n), style)
                            ELSE cache2 = cache /\ buf'[p] = buf[p]
                  ELSE cache2 = cache /\ buf'[p] = buf[p]]_vars

\* a second Handle call has written the caller from the cache entry the first
\* one stored
C11_Witness ==
    /\ pc[1] = "label"
    /\ Handler(1).hasCaller
    /\ rec[1].PC = 1
    /\ Len(sink) = 1
    /\ sink[1].data = <<"[", "I", "N", "F", "]", " ", "<", "f", ":", "7", ">", " ", "m", "\n">>
    /\ buf[1] = <<"[", "I", "N", "F", "]", " ", "<", "f", ":", "7", ">", " ">>
    /\ 1 \in DOMAIN pcCaches[Handler(1).pcCache]

\* ----------------------------------------------------------------- liveness

\* The scheduler runs every goroutine that can take a step, Write and the
\* attrHandler return, and a goroutine blocked in Lock gets the mutex once it
\* has been free often enough (sync.Mutex hands a starving waiter the lock).
Fairness ==
    \A p \in Procs : WF_vars(HandleStep(p)) /\ SF_vars(Lock(p))

\* SpecLive: Spec under fair scheduling
SpecLive == Init /\ [][Next]_vars /\ Fairness

\* C12: under fair scheduling every Handle call that has started eventually
\* returns, with a nil or an error result, and does not hold the mutex of the
\* family then: no caller waits forever in Lock.
C12_HandleReturns ==
    \A p \in Procs :
        (pc[p] # "idle") ~> (pc[p] = "done" /\ mutex[Handler(p).mu] # p)

\* two calls on different handlers of one family have both returned, the
\* mutex is free and both lines are in the sink
C12_Witness ==
    /\ pc[1] = "done"
    /\ pc[2] = "done"
    /\ hnd[1] # hnd[2]
    /\ Len(sink) = 2
    /\ \A m \in 1..Len(mutex) : mutex[m] = 0

\* ----------------------------------------------------------- frame of Handle

\* a step of a Handle call
HandleMoves == \E p \in Procs : pc'[p] # pc[p] \/ idx'[p] # idx[p]

\* C13: Handle changes nothing but the sink and the shared caller cache: through
\* every step of every Handle call each handler keeps its level, prefix, flags,
\* time layout, attrHandler, style, attribute list, group list, cached groups
\* and cached attribute bytes, and the line it renders each record into is the
\* same after the step as before, whatever the caller cache has come to hold.
C13_HandleFrame ==
    [][HandleMoves =>
         \/ UNCHANGED <<handlers, attrArrays, strArrays, pcCaches>>
         \/ \A h \in 1..Len(handlers) :
              HandlerView(handlers', attrArrays', strArrays', pcCaches', h)
                = HandlerView(handlers, attrArrays, strArrays, pcCaches, h)]_vars

\* the same line has been written twice, by a call that stored the caller in
\* the cache and by a call that found it there
C13_Witness ==
    /\ Len(sink) = 2
    /\ sink[1].data = sink[2].data
    /\ 1 \in DOMAIN pcCaches[1]
    /\ \E p \in Procs : pc[p] = "done" /\ rec[p] = RecSecret

\* ---------------------------------------------------------------- WithAttrs

\* WithAttrs returns the handler it has built
WithAttrsReturns == wa.pc = "built" /\ wa'.pc = "idle"

\* a []string value holding the names gs
StringsValue(gs) == [isnil |-> FALSE, arr |-> gs, len |-> Len(gs), ref |-> 0]

\* C14: WithAttrs with a non-empty list returns a new handler whose attribute
\* list is the receiver's attributes followed by the given ones, in order, each
\* of them (inherited and given) passed through the attrHandler when there is
\* one, and whose attrsCache is the rendering of the attributes of that list
\* with a non-empty key under the handler's groups, empty when no attribute
\* has a key.
C14_WithAttrs ==
    [][WithAttrsReturns =>
         LET h == handlers[wa.h]
             n == Len(handlers')
             h2 == handlers'[n]
             all == AttrsOf(h.attrs) \o wa.given
             list == AttrsIn(attrArrays', h2.attrs)
             gs == Elems(StringsIn(strArrays', h2.groups))
         IN /\ wa.given # <<>>
            /\ n = Len(handlers) + 1
            /\ derived'.ret = n
            /\ Len(list) = Len(all)
            /\ \A i \in 1..Len(all) :
                 list[i] = IF h.attrHandler = "nil" THEN all[i]
                           ELSE CallAttrHandler(h.attrHandler, all[i])
            /\ gs = Elems(StringsOf(h.groups))
            /\ h2.attrsCache = RenderAttrs(<<>>, SelectSeq(list, HasKey), 1,
                                           StringsValue(gs), StyleOf(h2.style)).buf
            /\ (\A i \in 1..Len(list) : ~HasKey(list[i])) => h2.attrsCache = <<>>]_vars

\* h.WithAttrs([a=1]).WithAttrs([a=1]) of a root h with the "mark"
\* attrHandler: the inherited a has gone through the function twice
C14_Witness ==
    /\ Len(handlers) = 3
    /\ derived.ret = 3
    /\ handlers[3].attrHandler = "mark"
    /\ Len(history[3]) = 2
    /\ history[3][1].op = "WithAttrs" /\ history[3][2].op = "WithAttrs"
    /\ AttrsOf(handlers[3].attrs)
         = <<String(<<"a">>, <<"1", "!", "!">>), String(<<"a">>, <<"1", "!">>)>>
    /\ handlers[3].attrsCache
         = <<" ", "a", "=", "1", "!", "!", " ", "a", "=", "1", "!">>

\* WithAttrs has been given one attribute, with an empty key, by a handler
\* without attributes: the new handler holds the attribute and caches nothing
C14_EmptyKeys ==
    /\ Len(handlers) = 2
    /\ derived.ret = 2
    /\ history[2] = <<[op |-> "WithAttrs", attrs |-> <<String(<<>>, <<"e">>)>>,
                       name |-> <<>>]>>
    /\ handlers[2].attrs.len = 1
    /\ handlers[2].attrsCache = <<>>

\* ---------------------------------------------------------------- WithGroup

\* WithGroup returns a handler it has built
WithGroupReturns ==
    /\ Len(handlers') = Len(handlers) + 1
    /\ history'[Len(handlers')][Len(history'[Len(handlers')])].op = "WithGroup"

\* handler h2 of the next state is what h.WithGroup(name) has to be
WithGroupOf(h, h2, name) ==
    LET gs == Append(Elems(StringsOf(h.groups)), name)
    IN /\ Elems(StringsIn(strArrays', h2.groups)) = gs
       /\ h2.attrsCache = <<>>
       /\ Elems(StringsIn(strArrays', h2.groupsCache)) = gs
       /\ h2.mu = h.mu
       /\ h2.pcCache = h.pcCache
       /\ h2.attrs = h.attrs
       /\ AttrsIn(attrArrays', h2.attrs) = AttrsOf(h.attrs)

\* C15: WithGroup with a non-empty name returns a new handler whose groups are
\* the receiver's groups followed by the name, whose attrsCache is empty, whose
\* groupsCache holds the new groups, which has the mutex and the caller cache
\* of the receiver, and whose attribute list is the receiver's.
C15_WithGroup ==
    [][WithGroupReturns =>
         LET n == Len(handlers')
             op == history'[n][Len(history'[n])]
         IN /\ op.name # <<>>
            /\ derived'.ret = n
            /\ \E h \in 1..Len(handlers) :
                 /\ history'[n] = Append(history[h], op)
                 /\ WithGroupOf(handlers[h], handlers'[n], op.name)]_vars

\* h.WithAttrs([a=1]).WithGroup("g") of a root h: the group g, the attribute
\* a=1 and no cached bytes
C15_Witness ==
    /\ Len(handlers) = 3
    /\ derived.ret = 3
    /\ Len(history[3]) = 2
    /\ history[3][1].op = "WithAttrs" /\ history[3][2].op = "WithGroup"
    /\ history[2] = SubSeq(history[3], 1, 1)
    /\ handlers[2].attrsCache = <<" ", "a", "=", "1">>
    /\ handlers[3].attrsCache = <<>>
    /\ Elems(StringsOf(handlers[3].groups)) = << <<"g">> >>
    /\ Elems(StringsOf(handlers[3].groupsCache)) = << <<"g">> >>
    /\ AttrsOf(handlers[3].attrs) = <<String(<<"a">>, <<"1">>)>>
    /\ handlers[3].mu = handlers[1].mu
    /\ handlers[3].pcCache = handlers[1].pcCache

\* ------------------------------------------------------- derivations, no-ops

\* between two Handle calls, every derivation can be called on every handler
\* with every argument, and a WithAttrs that has begun can return
DerivationsReturn ==
    (\A p \in Procs : pc[p] = "idle") =>
      /\ wa.pc = "idle" =>
           \A h \in 1..Len(handlers) :
             /\ \A name \in GroupNames : ENABLED WithGroup(h, name)
             /\ \A attrs \in AttrLists : ENABLED WithAttrsCall(h, attrs)
      /\ wa.pc = "built" => ENABLED WithAttrsReturn

\* a WithAttrs or WithGroup call returns
DerivationStep ==
    derived' # derived =>
      /\ derived'.ret \in 1..Len(handlers')
      /\ derived'.recv \in 1..Len(handlers)
      /\ derived'.arg = <<>> =>
           /\ derived'.ret = derived'.recv
           /\ UNCHANGED <<handlers, attrArrays, strArrays, history, wa, mutex, pcCaches,
                          sink, pool, held>>

\* C16: WithAttrs with no attributes and WithGroup with the empty name return
\* their receiver, and no handler, array, cache, buffer or lock changes; every
\* derivation, whatever its argument, returns a handler.
C16_NoOpDerivation == []DerivationsReturn /\ [][DerivationStep]_vars

\* a derived handler has been asked for WithAttrs of no attributes and has
\* returned itself, two handlers existing as before
C16_Witness ==
    /\ Len(handlers) = 2
    /\ derived = Derived("WithAttrs", 2, <<>>, 2)
    /\ wa = NoWithAttrs
    /\ held = 0

\* ------------------------------------------------- output of twin handlers

\* the line buffer of call p holds the whole line
LineDone(p) == pc[p] \in {"writing", "release"}

\* two handlers configured alike: all but the mutex and the caller cache
SameConfiguration(h1, h2) ==
    [h1 EXCEPT !.mu = 0, !.pcCache = 0] = [h2 EXCEPT !.mu = 0, !.pcCache = 0]

\* C17: two handlers built by two NewCLIHandler calls with the same options
\* write the same bytes for the same record, whatever each has rendered before:
\* whenever two calls on handlers configured alike hold the finished line of
\* the same record, the two lines are equal, whether the caller came from
\* the cache or was resolved and whichever buffer the pool gave.
C17_TwinOutput ==
    \A p, q \in Procs :
        /\ LineDone(p) /\ LineDone(q)
        /\ rec[p] = rec[q]
        /\ SameConfiguration(Handler(p), Handler(q))
        => buf[p] = buf[q]

\* after one render of another record through one of the two handlers, both
\* handlers hold the finished line of the same record, one with the caller
\* from its cache and one having resolved it, one in a buffer from the pool
C17_Witness ==
    /\ pc[1] = "writing" /\ pc[2] = "writing"
    /\ hnd[1] # hnd[2]
    /\ rec[1] = RecSecret /\ rec[2] = RecSecret
    /\ ncalls = 3
    /\ Len(sink) = 1
    /\ sink[1].data # buf[1]
    /\ buf[1] = buf[2]
    /\ 1 \in DOMAIN pcCaches[1] /\ 1 \in DOMAIN pcCaches[2]

\* ------------------------------------------------------ the parts of a line

\* each part of the line of record r on handler h, written on its own
LevelPart(h, r) == LevelSegment(<<>>, h, r, <<>>)

CallerPart(h, r) ==
    IF h.hasCaller /\ r.PC # 0 /\ Resolvable(r.PC)
    THEN writeCaller(<<>>, NameLine(r.PC), StyleOf(h.style))
    ELSE <<>>

LabelPart(h) ==
    IF h.prefix # <<>> THEN WriteField(<<>>, h.prefix, StyleOf(h.style).Label, <<>>) ELSE <<>>

TimePart(h, r) == IF h.hasTime THEN WriteTime(<<>>, h, r, StyleOf(h.style)) ELSE <<>>

AttachedPart(h) ==
    RenderAttrs(<<>>, SelectSeq(AttrsOf(h.attrs), HasKey), 1, StringsValue(Elems(StringsOf(h.groups))),
                StyleOf(h.style)).buf

RecordPart(h, r) == RecordAttrs(<<>>, h, r.Attrs, 1, StringsValue(Elems(StringsOf(h.groups))))

\* the default configuration but for the style: no label, no time, no caller,
\* nothing attached
Unadorned(h) ==
    /\ h.prefix = <<>> /\ ~h.hasTime /\ ~h.hasCaller
    /\ h.attrs.len = 0 /\ h.groups.len = 0

\* C18: the finished line is the level segment, the caller segment, the label
\* segment, the message, the time, the attached attributes, the attributes of
\* the record and one newline, in this order, a part that is not configured
\* being empty; through an unadorned Style0 handler, the record at info with
\* message "info message" and no attributes is the line "[INF] info message"
\* and a newline.
C18_LineOrder ==
    \A p \in Procs :
      LineDone(p) =>
        LET h == Handler(p)
            r == rec[p]
        IN /\ buf[p] = LevelPart(h, r) \o CallerPart(h, r) \o LabelPart(h) \o r.Message
                         \o TimePart(h, r) \o AttachedPart(h) \o RecordPart(h, r) \o <<"\n">>
           /\ ~h.hasCaller => CallerPart(h, r) = <<>>
           /\ h.prefix = <<>> => LabelPart(h) = <<>>
           /\ ~h.hasTime => TimePart(h, r) = <<>>
           /\ h.attrs.len = 0 => AttachedPart(h) = <<>>
           /\ r.Attrs = <<>> => RecordPart(h, r) = <<>>
           /\ h.style = "Style0" /\ Unadorned(h) /\ r = RecInfo =>
                buf[p] = <<"[", "I", "N", "F", "]", " ", "i", "n", "f", "o", " ",
                           "m", "e", "s", "s", "a", "g", "e", "\n">>

\* a Style0 handler with label, time, caller and an attached attribute holds
\* the finished line of the record at warn with b=2: every part, in order
C18_Witness ==
    /\ LineDone(1)
    /\ Handler(1).style = "Style0"
    /\ rec[1] = RecB
    /\ buf[1] = <<"[", "W", "R", "N", "]", " ", "<", "f", ":", "7", ">", " ", "L", " ", "m",
                  " ", "t", "i", "m", "e", "=", "T", "0", "Z",
                  " ", "a", "=", "1", " ", "b", "=", "2", "\n">>

\* ------------------------------------------------------- attributes in groups

\* names joined by dots
RECURSIVE Dotted(_)
Dotted(names) ==
    IF names = <<>> THEN <<>>
    ELSE IF Len(names) = 1 THEN names[1]
    ELSE names[1] \o <<".">> \o Dotted(Tail(names))

\* texts joined by single spaces
RECURSIVE Spaced(_)
Spaced(texts) ==
    IF texts = <<>> THEN <<>>
    ELSE IF Len(texts) = 1 THEN texts[1]
    ELSE texts[1] \o <<" ">> \o Spaced(Tail(texts))

\* a leaf under the group path: path.key=value
PlainLeaf(path, a) ==
    Dotted(Append(path, a.Key)) \o <<"=">>
      \o (IF a.Kind = "Int64" THEN AppendInt(<<>>, a.Int) ELSE a.Str)

\* an attribute under the group path: a leaf, or the children of a group, each
\* under the path with the key of the group, single spaces between them
RECURSIVE PlainAttr(_, _)
PlainAttr(path, a) ==
    IF a.Kind = "Group"
    THEN Spaced([i \in 1..Len(a.Grp) |-> PlainAttr(Append(path, a.Key), a.Grp[i])])
    ELSE PlainLeaf(path, a)

\* the leaves of an attribute, each as path.key=value, in order
RECURSIVE Leaves(_, _, _)
Leaves(path, as, i) ==
    IF i > Len(as) THEN <<>>
    ELSE (IF as[i].Kind = "Group" THEN Leaves(Append(path, as[i].Key), as[i].Grp, 1)
          ELSE <<PlainLeaf(path, as[i])>>) \o Leaves(path, as, i + 1)

\* no group of the attribute is without children
RECURSIVE NoEmptyGroup(_)
NoEmptyGroup(a) ==
    a.Kind = "Group" => a.Grp # <<>> /\ \A i \in 1..Len(a.Grp) : NoEmptyGroup(a.Grp[i])

\* the attributes of a record on a handler with groups gs, each after a space
RECURSIVE PlainRecordAttrs(_, _, _)
PlainRecordAttrs(gs, as, i) ==
    IF i > Len(as) THEN <<>>
    ELSE <<" ">> \o PlainAttr(gs, as[i]) \o PlainRecordAttrs(gs, as, i + 1)

\* C19: writeAttr renders every leaf as its group path, dotted, then its key,
\* the separator and its value, the path being the groups it was called with
\* (in Handle, the groups of the handler) followed by the keys of the groups
\* around the leaf; the children of a group have one space between them and
\* none after the last; hence the leaves of an attribute in which every group
\* has children come out one space apart, and key=value under outer then inner
\* is outer.inner.key=value.
C19_GroupPath ==
    \A p \in Procs :
      /\ pc[p] = "wrote" =>
           LET a == rec[p].Attrs[1]
               gs == Elems(groups[p])
           IN /\ buf[p] = PlainAttr(gs, a)
              /\ NoEmptyGroup(a) => buf[p] = Spaced(Leaves(gs, <<a>>, 1))
              /\ a = OuterInner /\ gs = <<>> =>
                   buf[p] = <<"o", "u", "t", "e", "r", ".", "i", "n", "n", "e", "r", ".",
                              "k", "e", "y", "=", "v", "a", "l", "u", "e">>
      /\ LineDone(p) =>
           buf[p] = <<"[", "I", "N", "F", "]", " ", "m">>
                      \o PlainRecordAttrs(Elems(StringsOf(Handler(p).groups)), rec[p].Attrs, 1)
                      \o <<"\n">>

\* Handle on root.WithGroup("g").WithGroup("h") holds the line of the record
\* carrying key=value under outer then inner, and d=4
C19_Witness ==
    /\ LineDone(1)
    /\ Elems(StringsOf(Handler(1).groups)) = << <<"g">>, <<"h">> >>
    /\ rec[1].Attrs = <<OuterInner, LeafD>>
    /\ buf[1] = <<"[", "I", "N", "F", "]", " ", "m", " ",
                  "g", ".", "h", ".", "o", "u", "t", "e", "r", ".", "i", "n", "n", "e", "r", ".",
                  "k", "e", "y", "=", "v", "a", "l", "u", "e", " ",
                  "g", ".", "h", ".", "d", "=", "4", "\n">>

\* ------------------------------------------------------ the level switch

\* the four classes of severities and the named level of each
LevelClass(l) ==
    IF l = LevelDebug THEN LevelDebug
    ELSE IF l = LevelInfo THEN LevelInfo
    ELSE IF l = LevelWarn THEN LevelWarn
    ELSE LevelError

\* the text Style0 gives the named levels
PlainLevelText(l) ==
    IF l = LevelDebug THEN <<"[", "D", "B", "G", "]">>
    ELSE IF l = LevelInfo THEN <<"[", "I", "N", "F", "]">>
    ELSE IF l = LevelWarn THEN <<"[", "W", "R", "N", "]">>
    ELSE <<"[", "E", "R", "R", "]">>

\* C20: Handle picks the level style in four ways: a record at debug, info or
\* warn exactly gets the style of that level, a record at error or above the
\* style of error, and a record of any other severity gets no style: Handle
\* returns "unknown log level" from the switch.
C20_FourWay ==
    \A p \in Procs :
      pc[p] \notin {"idle", "lock", "classify", "wrote"} =>
        LET l == rec[p].Level
            h == Handler(p)
        IN IF l \in {LevelDebug, LevelInfo, LevelWarn} \/ l >= LevelError
           THEN /\ ret[p] # "unknown log level"
                /\ pc[p] = "caller" =>
                     /\ buf[p] = WriteField(<<>>, StyleOf(h.style).Level[LevelClass(l)].Text,
                                            StyleOf(h.style).Level[LevelClass(l)], <<>>)
                     /\ h.style = "Style0" => buf[p] = Append(PlainLevelText(LevelClass(l)), " ")
           ELSE /\ pc[p] \in {"unlock", "done"}
                /\ ret[p] = "unknown log level"
                /\ buf[p] = <<>>

\* a record two above error has got the text of error from Style0, after a
\* record of another severity got the error from the switch and wrote nothing
C20_Witness ==
    /\ pc[1] = "caller"
    /\ Handler(1).style = "Style0"
    /\ rec[1].Level = LevelError + 2
    /\ buf[1] = <<"[", "E", "R", "R", "]", " ">>
    /\ ncalls = 2
    /\ sink = <<>>

\* ------------------------------------------------------- quoting of strings

\* the whitespace characters (unicode.IsSpace) of the alphabet
WhitespaceChars == {" ", "\t", "\n", "\r"}

\* the value holds a whitespace character, a backslash or a double quote
NeedsQuote(v) == ContainsAny(v, WhitespaceChars) \/ ContainsAny(v, {"\\", "\""})

\* C21: a string value is written quoted and escaped if and only if it holds a
\* whitespace character, a backslash or a double quote, and bare otherwise.
C21_QuotedIffSpecial ==
    \A p \in Procs :
      pc[p] = "wrote" /\ rec[p].Attrs[1].Kind = "String" /\ rec[p].Attrs[1].Key = <<"k">> =>
        LET v == rec[p].Attrs[1].Str
        IN buf[p] = <<"k", "=">> \o (IF NeedsQuote(v) THEN Quote(v) ELSE v)

\* what writeAttr has written for a value holding a carriage return and none
\* of space, tab, newline, backslash and quote: the value bare
C21_BareCarriageReturn ==
    /\ pc[1] = "wrote"
    /\ rec[1].Attrs[1] = String(<<"k">>, <<"a", "\r", "a">>)
    /\ buf[1] = <<"k", "=", "a", "\r", "a">>

\* -------------------------------------------------------------------- align

\* n spaces
Spaces(n) == [i \in 1..n |-> " "]

\* C22: align(s, w) writes s as it is when w is at most the display width dw
\* of s (w <= 0 included); when w is larger it writes floor((w - dw) / 2)
\* spaces, s, and the remaining spaces, so that what it wrote is w columns
\* wide and an odd space is on the right.
C22_Align ==
    call.fn = "align" =>
      LET s == call.args[1]
          w == call.args[2]
          dw == StringWidth(s)
          left == (w - dw) \div 2
      IN /\ w <= dw => call.result = s
         /\ w > dw =>
              /\ call.result = Spaces(left) \o s \o Spaces(w - dw - left)
              /\ StringWidth(call.result) = w
              /\ w - dw - left \in {left, left + 1}

\* a text three columns wide, one wide character in it, aligned to six columns:
\* one space before it and two after
C22_Witness ==
    call = [fn |-> "align", args |-> << <<"a", "W">>, 6 >>,
            result |-> <<" ", "a", "W", " ", " ">>]

\* -------------------------------------------------------------- Style.Clone

\* what style s is: its level entries and its fields, over the heaps ss and lm
StyleValue(ss, lm, s) ==
    [Level |-> IF ss[s].Level = 0 THEN <<>> ELSE lm[ss[s].Level],
     HasLevel |-> ss[s].Level # 0,
     Label |-> ss[s].Label, Attr |-> ss[s].Attr, Caller |-> ss[s].Caller]

\* Clone returns
CloneStep ==
    call' # call /\ call'.fn = "Clone" =>
      LET s == call'.args[1]
          n == call'.result
      IN IF s = 0
         THEN n = 0 /\ UNCHANGED <<styles, levelMaps>>
         ELSE /\ n = Len(styles) + 1 /\ Len(styles') = n
              /\ StyleValue(styles', levelMaps', n) = StyleValue(styles, levelMaps, s)
              /\ styles[s].Level # 0 =>
                   \A t \in 1..Len(styles) : styles'[n].Level # styles[t].Level
              /\ \A t \in 1..Len(styles) :
                   StyleValue(styles', levelMaps', t) = StyleValue(styles, levelMaps, t)

\* an assignment to a level entry or a field of style s
SetStep ==
    call' # call /\ call'.fn \in {"SetLevel", "SetLabelWidth", "SetSeparator", "SetFullpath"} =>
      \A t \in 1..Len(styles) :
        t # call'.args[1] =>
          StyleValue(styles', levelMaps', t) = StyleValue(styles, levelMaps, t)

\* every style with a level map has a map of its own
OwnLevelMaps ==
    \A s, t \in 1..Len(styles) : s # t /\ styles[s].Level # 0 => styles[s].Level # styles[t].Level

\* C23: Clone of nil is nil; Clone of a style is a new style with the same
\* level entries and fields, its level map a map of its own; an assignment to
\* a level entry or to a label, attr or caller field of one style, clone or
\* original, changes no other style.
C23_Clone == []OwnLevelMaps /\ [][CloneStep /\ SetStep]_vars

\* the clone of a preset has got another info entry, another label width,
\* separator and caller flag, and the original is the preset it was
C23_Witness ==
    /\ Len(styles) = 2
    /\ StyleValue(styles, levelMaps, 1)
         = [Level |-> Style0.Level, HasLevel |-> TRUE, Label |-> Style0.Label,
            Attr |-> Style0.Attr, Caller |-> Style0.Caller]
    /\ levelMaps[styles[2].Level][LevelInfo].Text = <<"M", "O", "D", "I", "F", "I", "E", "D">>
    /\ styles[2].Label.Width = 99
    /\ styles[2].Attr.Separator = <<":">>
    /\ styles[2].Caller.Fullpath

\* -------------------------------------------------------------------- Color

\* the sequence that activates the codes: ESC [ code ; code ... m
RECURSIVE CodeList(_)
CodeList(codes) ==
    IF Len(codes) = 1 THEN AppendInt(<<>>, codes[1])
    ELSE AppendInt(<<>>, codes[1]) \o <<";">> \o CodeList(Tail(codes))

Activate(codes) == <<"ESC", "[">> \o CodeList(codes) \o <<"m">>

\* C24: WriteString and WriteBytes of a nil color and of a color made with no
\* codes append the content as it is; those of a color with codes append the
\* sequence that activates the codes, the content and the reset sequence, in
\* this order, the two sequences also when the content is empty.
C24_ColorWrite ==
    call.fn \in {"WriteString", "WriteBytes"} =>
      LET c == call.args[1]
          b == call.args[2]
          s == call.args[3]
      IN IF c.isnil \/ c.codes = <<>>
         THEN call.result = b \o s
         ELSE call.result = b \o Activate(c.codes) \o s \o <<"ESC", "[", "0", "m">>

\* a color with two codes has written an empty string: the two sequences
C24_Witness ==
    /\ call.fn = "WriteString"
    /\ call.args = <<NewColor(<<FgHiBlack, Bold>>), <<"x">>, <<>> >>
    /\ call.result = <<"x", "ESC", "[", "9", "0", ";", "1", "m", "ESC", "[", "0", "m">>

\* ------------------------------------------------ NewCLIHandler, its options

\* the last option of the list that satisfies P, 0 when there is none
LastOption(opts, P(_)) ==
    LET I == {i \in 1..Len(opts) : P(opts[i])}
    IN IF I = {} THEN 0 ELSE CHOOSE i \in I : \A j \in I : j <= i

SetsLevel(o) == o.opt = "WithLevel" /\ ~o.level.isnil
SetsLabel(o) == o.opt = "WithLabel"
SetsCaller(o) == o.opt = "WithCaller"
SetsTime(o) == o.opt = "WithTime"
SetsTimeFormat(o) == o.opt = "WithTimeFormat" /\ o.name # ""
SetsAttrHandler(o) == o.opt = "WithAttrHandler" /\ o.name # "nil"
SetsStyle(o) == o.opt = "WithStyle" /\ o.name # "nil"

\* handler h is what NewCLIHandler(w, opts...) has to return: for each setting
\* the value of the last option that sets it, else the default
BuiltFrom(h, opts) ==
    /\ h.level = IF LastOption(opts, SetsLevel) = 0 THEN Leveler(LevelInfo)
                 ELSE opts[LastOption(opts, SetsLevel)].level
    /\ h.prefix = IF LastOption(opts, SetsLabel) = 0 THEN <<>>
                  ELSE opts[LastOption(opts, SetsLabel)].str
    /\ h.hasCaller = IF LastOption(opts, SetsCaller) = 0 THEN FALSE
                     ELSE opts[LastOption(opts, SetsCaller)].flag
    /\ h.hasTime = IF LastOption(opts, SetsTime) = 0 THEN FALSE
                   ELSE opts[LastOption(opts, SetsTime)].flag
    /\ h.timeLayout = IF LastOption(opts, SetsTimeFormat) = 0 THEN "RFC3339"
                      ELSE opts[LastOption(opts, SetsTimeFormat)].name
    /\ h.attrHandler = IF LastOption(opts, SetsAttrHandler) = 0 THEN "nil"
                       ELSE opts[LastOption(opts, SetsAttrHandler)].name
    /\ h.style = IF LastOption(opts, SetsStyle) = 0 THEN "Style1"
                 ELSE opts[LastOption(opts, SetsStyle)].name
    /\ h.attrs.len = 0 /\ h.groups.len = 0 /\ h.attrsCache = <<>>

\* handler h has a threshold, a layout, a style, a mutex and a caller cache
Complete(h) ==
    /\ ~h.level.isnil
    /\ h.timeLayout # ""
    /\ h.style # "nil"
    /\ h.mu \in 1..Len(mutex)
    /\ h.pcCache \in 1..Len(pcCaches)

\* C25: NewCLIHandler without options returns a handler with threshold info,
\* no label, no time, the RFC 3339 layout, no caller, no attrHandler and
\* Style1; with options, each setting has the value of the last option that
\* sets it, WithLevel(nil), WithTimeFormat(""), WithAttrHandler(nil) and
\* WithStyle(nil) setting nothing; every handler NewCLIHandler has returned
\* and every handler derived from one has a threshold, a layout, a style, a
\* mutex and a caller cache.
C25_Options ==
    /\ \A h \in 1..Len(handlers) : Complete(handlers[h])
    /\ call.fn = "NewCLIHandler" =>
         /\ BuiltFrom(handlers[call.result], call.args)
         /\ call.args = <<>> =>
              /\ handlers[call.result].level = Leveler(LevelInfo)
              /\ handlers[call.result].prefix = <<>>
              /\ ~handlers[call.result].hasTime
              /\ handlers[call.result].timeLayout = "RFC3339"
              /\ ~handlers[call.result].hasCaller
              /\ handlers[call.result].attrHandler = "nil"
              /\ handlers[call.result].style = "Style1"

\* NewCLIHandler(w, WithLevel(warn), WithLevel(nil)) has returned a handler
\* with threshold warn, and a handler derived from it has it too
C25_Witness ==
    /\ call.fn = "NewCLIHandler"
    /\ call.args = <<WithLevel(Leveler(LevelWarn)), WithLevel(NilLevel)>>
    /\ handlers[call.result].level = Leveler(LevelWarn)
    /\ Len(handlers) = 3
    /\ history[3] # <<>>
    /\ handlers[3].mu = handlers[call.result].mu
    /\ handlers[3].level = Leveler(LevelWarn)

\* ------------------------------------------- attrsCache against h.attrs live

\* the attached attributes at the start of "Add attributes" of Handle call p
JustAttached(p) == pc[p] = "attrs" /\ idx[p] = 1

\* C26: for every handler made by NewCLIHandler, WithAttrs and WithGroup, a
\* non-empty attrsCache is the attributes of h.attrs with a key, each after a
\* space, written under h.groups, and so is what Handle writes for the
\* attached attributes, from the cache or from h.attrs.
C26_CacheIsLive ==
    /\ \A h \in 1..Len(handlers) :
         /\ Len(handlers[h].attrsCache) > 0 => handlers[h].attrsCache = AttachedPart(handlers[h])
         /\ AttachedSegment(<<>>, handlers[h], HandleGroups(handlers[h])).buf
              = AttachedPart(handlers[h])
    /\ \A p \in Procs :
         JustAttached(p) =>
           buf[p] = LineHead(Handler(p), rec[p], pcCaches[Handler(p).pcCache])
                      \o AttachedPart(Handler(p))

\* Handle has written the attached attributes of a handler with a group and
\* no cache from h.attrs, its parent having them in its cache
C26_Witness ==
    /\ JustAttached(1)
    /\ Handler(1).attrsCache = <<>>
    /\ Handler(1).groups.len > 0
    /\ AttachedPart(Handler(1)) # <<>>
    /\ \E h \in 1..Len(handlers) :
         /\ handlers[h].attrsCache # <<>>
         /\ handlers[h].attrs = Handler(1).attrs

\* ------------------------------------------------- handlers of one parent

\* handlers x and y are two handlers derived from one parent
Siblings(x, y) ==
    /\ x # y
    /\ history[x] # <<>> /\ history[y] # <<>>
    /\ \E z \in 1..Len(handlers) :
         /\ history[z] = SubSeq(history[x], 1, Len(history[x]) - 1)
         /\ history[z] = SubSeq(history[y], 1, Len(history[y]) - 1)

\* the step derives a handler from x, or is a step of a Handle call on x
ActsThrough(x) ==
    \/ wa'.pc = "built" /\ wa.pc = "idle" /\ wa'.h = x
    \/ wa.pc = "built" /\ wa'.pc = "idle" /\ wa.h = x
    \/ derived' # derived /\ derived'.recv = x
    \/ \E p \in Procs : (pc'[p] # pc[p] \/ idx'[p] # idx[p]) /\ (hnd[p] = x \/ hnd'[p] = x)

\* the only array Handle writes into, that of h.groupsCache, belongs to one
\* handler and is the groups list of none; two handlers with one array for
\* their attrs or their groups have the same list
WrittenStorageOwn ==
    \A x, y \in 1..Len(handlers) :
        /\ handlers[x].groupsCache.arr # 0 =>
             /\ x # y => handlers[y].groupsCache.arr # handlers[x].groupsCache.arr
             /\ handlers[y].groups.arr # handlers[x].groupsCache.arr
        /\ handlers[x].attrs.arr = handlers[y].attrs.arr => handlers[x].attrs = handlers[y].attrs
        /\ handlers[x].groups.arr = handlers[y].groups.arr =>
             handlers[x].groups = handlers[y].groups

\* no step writes into the array of the attrs or of the groups of a handler
ListsNeverWritten ==
    \A x \in 1..Len(handlers) :
        /\ handlers[x].attrs.arr # 0 =>
             attrArrays'[handlers[x].attrs.arr] = attrArrays[handlers[x].attrs.arr]
        /\ handlers[x].groups.arr # 0 =>
             strArrays'[handlers[x].groups.arr] = strArrays[handlers[x].groups.arr]

\* a step through one of two handlers of one parent leaves the other as it was
SiblingFrame ==
    \A x, y \in 1..Len(handlers) :
        Siblings(x, y) /\ ActsThrough(x) =>
          /\ handlers'[y] = handlers[y]
          /\ HandlerView(handlers', attrArrays', strArrays', pcCaches', y)
               = HandlerView(handlers, attrArrays, strArrays, pcCaches, y)

\* C27 (as the code has it): two handlers derived from one parent may have
\* one array for their attrs (after WithGroup) or their groups (after
\* WithAttrs), but no step writes into such an array, and the array Handle
\* does write into, groupsCache, is that of one handler only: deriving from
\* one of the two handlers, or logging through it, changes neither the
\* attribute list, the group list, the cached bytes nor the rendered lines of
\* the other.
C27_SiblingsApart ==
    /\ []WrittenStorageOwn
    /\ [][ListsNeverWritten /\ SiblingFrame]_vars

\* C27 as stated: two handlers derived from one parent never have the same
\* array for their attribute lists or for their group lists.
C27_NoSharedStorage ==
    \A x, y \in 1..Len(handlers) :
        Siblings(x, y) =>
          /\ handlers[x].attrs.arr # 0 => handlers[x].attrs.arr # handlers[y].attrs.arr
          /\ handlers[x].groups.arr # 0 => handlers[x].groups.arr # handlers[y].groups.arr

\* two handlers made by WithGroup from one handler with attached attributes
\* have one attrs array, and a record has gone through one of them
C27_Witness ==
    /\ Len(handlers) = 4
    /\ Siblings(3, 4)
    /\ handlers[3].attrs.arr # 0
    /\ handlers[3].attrs.arr = handlers[4].attrs.arr
    /\ handlers[3].groups.arr # handlers[4].groups.arr
    /\ pc[1] = "done"
    /\ hnd[1] = 3

\* ------------------------------------------------- pcCache under the mutex

\* the one position of Handle that reads and writes h.pcCache
AtCache(p) == pc[p] = "caller"

\* the handlers with one pcCache have one mutex, and a Handle call at the
\* position that uses the cache holds it
CacheUnderMutex ==
    /\ \A x, y \in 1..Len(handlers) :
         handlers[x].pcCache = handlers[y].pcCache => handlers[x].mu = handlers[y].mu
    /\ \A p \in Procs : AtCache(p) => mutex[Handler(p).mu] = p

\* a step that changes cache c is the caller step of a Handle call on a handler
\* of c that holds the mutex; it keeps every entry and adds at most the one of
\* the program counter of the record
CacheGrows ==
    \A c \in 1..Len(pcCaches) :
        pcCaches'[c] # pcCaches[c] =>
          /\ \E p \in Procs :
               /\ CallerStep(p)
               /\ Handler(p).pcCache = c
               /\ mutex[Handler(p).mu] = p
               /\ DOMAIN pcCaches'[c] = DOMAIN pcCaches[c] \cup {rec[p].PC}
          /\ \A k \in DOMAIN pcCaches[c] : pcCaches'[c][k] = pcCaches[c][k]

\* C28: the pcCache of a family is used only by a Handle call that holds the
\* mutex of the family; an entry once stored stays as it is, and a Handle call
\* adds at most the entry of the program counter of its record.
C28_CacheGuarded ==
    /\ []CacheUnderMutex
    /\ [][CacheGrows /\ Len(pcCaches') = Len(pcCaches)]_vars

\* the cache holds the entries of two program counters, the second one just
\* stored by a Handle call that holds the mutex while the other goroutine waits
\* for it with a record of the first program counter on another handler
C28_Witness ==
    /\ DOMAIN pcCaches[1] = {1, 4}
    /\ \E p, q \in Procs :
         /\ pc[p] = "label"
         /\ rec[p].PC = 4
         /\ pc[q] = "lock"
         /\ rec[q].PC = 1
         /\ Handler(p) # Handler(q)

\* ------------------------------------------------------ buffers of the pool

\* the buffers idle in bufPool are empty
PoolClean == \A i \in 1..Len(pool) : pool[i] = <<>>

\* the position of Handle right after bufPool.Get()
JustGot(p) == pc[p] = "level"

\* what WithAttrs has to render list a of the handler it derives from h into
CacheOf(h, a) ==
    RenderAttrs(<<>>, SelectSeq(a, HasKey), 1, StringsValue(Elems(StringsOf(h.groups))),
                StyleOf(h.style)).buf

\* C29: every buffer idle in bufPool is empty, so the line buffer Handle gets
\* is empty, and under any interleaving of Handle and WithAttrs calls the
\* finished line of a Handle call is the line of its record and nothing else,
\* and the bytes WithAttrs has rendered are those of its attribute list and
\* nothing else.
C29_CleanBuffers ==
    /\ PoolClean
    /\ \A p \in Procs :
         /\ JustGot(p) => buf[p] = <<>>
         /\ LineDone(p) => buf[p] = HandleLine(Handler(p), rec[p], pcCaches[Handler(p).pcCache])
    /\ wa.pc = "built" => wa.buf = CacheOf(handlers[wa.h], wa.a)

\* after a first line has been written and its buffer put back, a Handle call
\* holds a finished line with an aligned level, and a WithAttrs call its
\* rendered bytes, the pool being empty: the buffer it kept has been taken
\* again
C29_Witness ==
    /\ Len(sink) = 1
    /\ pool = <<>>
    /\ wa.pc = "built" /\ wa.buf # <<>>
    /\ \E p \in Procs : pc[p] = "writing" /\ LevelStyleOf(Handler(p), rec[p]).Width > 0

\* --------------------------------------- an attrHandler that calls Handle

\* goroutine p is in the Handle call its attrHandler made from inside Handle,
\* on a handler with the mutex of the handler the outer Handle call is on
Reentered(p) ==
    /\ outer[p].ctx = "Handle"
    /\ Handler(p).mu = handlers[outer[p].hnd].mu

\* C30: Handle invokes h.attrHandler with h.mu held, WithAttrs invokes it
\* with h.mu not held by the caller; a Handle call the function makes from
\* inside Handle on a handler of the same family stays in h.mu.Lock() for
\* ever, the mutex being held by the outer call of its own goroutine, and the
\* outer Handle call never resumes.
C30_ReentrantDeadlock ==
    /\ [](\A p \in Procs :
            /\ outer[p].ctx = "Handle" => mutex[handlers[outer[p].hnd].mu] = p
            /\ outer[p].ctx = "WithAttrs" /\ pc[p] = "lock" =>
                 mutex[handlers[outer[p].h].mu] # p
            /\ Reentered(p) => pc[p] = "lock" /\ ~LockFree(Handler(p).mu))
    /\ [][\A p \in Procs : Reentered(p) => Reentered(p)' /\ pc'[p] = "lock"]_vars

\* the attrHandler of the first root, invoked by WithAttrs, has logged its
\* record and the handler has been derived; invoked by Handle on the first
\* root, it waits in Lock for the derived handler
C30_Witness ==
    /\ Len(handlers) = 3
    /\ Len(sink) >= 1
    /\ \E p \in Procs :
         /\ Reentered(p)
         /\ outer[p].hnd = 1
         /\ hnd[p] = 3

====
